---- MODULE Spec2Model ----
(***************************************************************************)
(* Hook-name resolver of react-devtools-shared/src/utils.js                *)
(* (src/unnamed/part_002): injectHookVariableNamesFunction and the         *)
(* functions it drives, modelled as a state machine over one call.         *)
(*                                                                         *)
(* Encoding of JavaScript values                                           *)
(*   - nullable numbers (id, lineNumber, columnNumber): Null (-1) is null; *)
(*   - binding names and hookVariableName are strings; Undefined is the    *)
(*     JavaScript undefined (an absent property), "" the empty string;     *)
(*   - a URL is the sequence of its "/"-separated segments, so that        *)
(*     "http://h/js/a.js" is <<"http:", "", "h", "js", "a.js">>; fileName  *)
(*     null is NoFile, the empty sequence (both are falsy);                *)
(*   - callee and namespace identifiers, which the code tests against      *)
(*     regular expressions, are sequences of one-character strings.        *)
(***************************************************************************)
EXTENDS Integers, Sequences, FiniteSets, TLC

Null == -1
Undefined == "undefined"
NoFile == <<>>

\* Largest number of top-level hooks of the input hookLog.
MaxHooks == 3
MaxMergeLen == 2

(***************************************************************************)
(* Sequence helpers                                                        *)
(***************************************************************************)
RECURSIVE Flatten(_)
\* concatenation of a sequence of sequences (push(...x) for each x)
Flatten(ss) == IF ss = <<>> THEN <<>> ELSE Head(ss) \o Flatten(Tail(ss))

Contains(s, x) == \E i \in 1..Len(s) : s[i] = x

RECURSIVE Dedup(_)
\* a sequence without its later duplicates (insertion order of a Set)
Dedup(s) ==
  IF s = <<>> THEN <<>>
  ELSE LET front == Dedup(SubSeq(s, 1, Len(s) - 1))
           last == s[Len(s)]
       IN IF Contains(front, last) THEN front ELSE Append(front, last)

RemoveAt(s, i) == SubSeq(s, 1, i - 1) \o SubSeq(s, i + 1, Len(s))

(***************************************************************************)
(* AST node kinds the classifier inspects                                  *)
(***************************************************************************)
AST_NODE_TYPES ==
  [ CALL_EXPRESSION |-> "CallExpression",
    MEMBER_EXPRESSION |-> "MemberExpression",
    ARRAY_PATTERN |-> "ArrayPattern",
    IDENTIFIER |-> "Identifier",
    NUMERIC_LITERAL |-> "NumericLiteral" ]

Upper == {"A","B","C","D","E","F","G","H","I","J","K","L","M",
          "N","O","P","Q","R","S","T","U","V","W","X","Y","Z"}
Digit == {"0","1","2","3","4","5","6","7","8","9"}

\* /^use.+$/ : any character after "use"
isHookName_anyAfterUse(name) ==
  /\ Len(name) >= 4
  /\ name[1] = "u" /\ name[2] = "s" /\ name[3] = "e"

\* /^use[A-Z0-9].*$/
isHookName(name) ==
  /\ Len(name) >= 4
  /\ name[1] = "u" /\ name[2] = "s" /\ name[3] = "e"
  /\ name[4] \in Upper \cup Digit

RECURSIVE isHook(_)
isHook(node) ==
  IF node.type = AST_NODE_TYPES.IDENTIFIER THEN isHookName(node.name)
  ELSE IF /\ node.type = AST_NODE_TYPES.MEMBER_EXPRESSION
          /\ ~node.computed
          /\ isHook(node.property)
       THEN /\ node.object.type = AST_NODE_TYPES.IDENTIFIER
            /\ Len(node.object.name) >= 1
            /\ node.object.name[1] \in Upper
       ELSE FALSE

\* node.name of a callee: undefined (the empty sequence never equals a
\* function name) unless the node is an Identifier
CalleeName(node) ==
  IF node.type = AST_NODE_TYPES.IDENTIFIER THEN node.name ELSE <<>>

isReactFunction(node, functionName) ==
  \/ CalleeName(node) = functionName
  \/ /\ node.type = "MemberExpression"
     /\ CalleeName(node.object) = <<"R","e","a","c","t">>
     /\ CalleeName(node.property) = functionName

isConfirmedHookDeclaration(path) ==
  IF path.init.type # AST_NODE_TYPES.CALL_EXPRESSION THEN FALSE
  ELSE isHook(path.init.callee)

checkNodeLocation(path, line) == line = path.loc.start.line

useState == <<"u","s","e","S","t","a","t","e">>
useReducer == <<"u","s","e","R","e","d","u","c","e","r">>

isStateOrReducerHook(path) ==
  \/ isReactFunction(path.init.callee, useState)
  \/ isReactFunction(path.init.callee, useReducer)

isPotentialHookDeclaration(path) ==
  IF path.init.type = AST_NODE_TYPES.CALL_EXPRESSION
  THEN isHook(path.init.callee)
  ELSE path.init.type \in
         {AST_NODE_TYPES.MEMBER_EXPRESSION, AST_NODE_TYPES.IDENTIFIER}

\* A declarator without an initializer (let x;): its init is null.
NoInit == [type |-> "null"]

\* isPotentialHookDeclaration reads path.node.init.type: a TypeError for a
\* declarator without an initializer, which ends the traversal
TraversalThrows(sourceAST) ==
  \E i \in 1..Len(sourceAST) : sourceAST[i].init = NoInit

\* The traversal visits the declarators in source order; sourceAST is the
\* sequence of the file's VariableDeclarator nodes in that order.
getPotentialHookDeclarationsFromAST(sourceAST) ==
  SelectSeq(sourceAST, isPotentialHookDeclaration)

\* isNonDeclarativePrimitiveHook with 'Effect' left out of its list
isNonDeclarativePrimitiveHook_noEffect(hook) ==
  hook.name \in {"ImperativeHandle", "LayoutEffect", "DebugValue"}

isNonDeclarativePrimitiveHook(hook) ==
  hook.name \in {"Effect", "ImperativeHandle", "LayoutEffect", "DebugValue"}

nodeContainsHookVariableName(hookNode) ==
  \/ hookNode.id.type = AST_NODE_TYPES.ARRAY_PATTERN
  \/ /\ hookNode.id.type = AST_NODE_TYPES.IDENTIFIER
     /\ ~isStateOrReducerHook(hookNode)

\* node.id.name, undefined when the id is a pattern
IdName(path) ==
  IF path.id.type = AST_NODE_TYPES.IDENTIFIER THEN path.id.name ELSE Undefined

\* node.init.object?.name
InitObjectName(path) ==
  IF /\ path.init.type = AST_NODE_TYPES.MEMBER_EXPRESSION
     /\ path.init.object.type = AST_NODE_TYPES.IDENTIFIER
  THEN path.init.object.name ELSE Undefined

\* node.init.name
InitName(path) ==
  IF path.init.type = AST_NODE_TYPES.IDENTIFIER
  THEN path.init.name ELSE Undefined

\* filterMemberNodesOfTargetHook without its test of init.name
filterMemberNodesOfTargetHook_membersOnly(targetHookNode, hookNode) ==
  IdName(targetHookNode) = InitObjectName(hookNode)

filterMemberNodesOfTargetHook(targetHookNode, hookNode) ==
  \/ IdName(targetHookNode) = InitObjectName(hookNode)
  \/ IdName(targetHookNode) = InitName(hookNode)

\* indexOf by object identity: every declarator of a file carries its own key
IndexOfNode(pool, node) ==
  IF \E i \in 1..Len(pool) : pool[i].key = node.key
  THEN CHOOSE i \in 1..Len(pool) : pool[i].key = node.key
  ELSE 0

\* the pool after the splice of getFilteredHookASTNodes
SplicedPool(potentialReactHookASTNode, potentialHooksFound) ==
  IF IndexOfNode(potentialHooksFound, potentialReactHookASTNode) # 0
  THEN RemoveAt(potentialHooksFound,
                IndexOfNode(potentialHooksFound, potentialReactHookASTNode))
  ELSE potentialHooksFound

\* getFilteredHookASTNodes that looks for member nodes whatever the
\* declarator binds
getFilteredHookASTNodes_membersOnly(potentialReactHookASTNode, potentialHooksFound) ==
  LET pool == SplicedPool(potentialReactHookASTNode, potentialHooksFound)
      Member(hookNode) ==
        filterMemberNodesOfTargetHook(potentialReactHookASTNode, hookNode)
  IN SelectSeq(pool, Member)

\* the nodes getFilteredHookASTNodes returns
getFilteredHookASTNodes(potentialReactHookASTNode, potentialHooksFound) ==
  LET pool == SplicedPool(potentialReactHookASTNode, potentialHooksFound)
      Member(hookNode) ==
        filterMemberNodesOfTargetHook(potentialReactHookASTNode, hookNode)
  IN IF nodeContainsHookVariableName(potentialReactHookASTNode)
     THEN <<potentialReactHookASTNode>>
     ELSE SelectSeq(pool, Member)

\* A hole of an array pattern ([, setCount]) is a null among its elements; no
\* identifier is named null.
Elision == "null"

\* An element of an array pattern that is not an identifier: an object
\* pattern ([{a}, set]), a default ([a = 1]) or a rest element ([...rest]).
\* Such a node has no name property.
NonIdentifiers == {"{a}", "a = 1", "...rest"}

\* elements[0].name: the name of an identifier, undefined for another node
ElementName(element) ==
  IF element \in NonIdentifiers THEN Undefined ELSE element

\* Results of functions that can throw: [threw |-> TRUE] or a value.
Threw == [threw |-> TRUE]
Ret(v) == [threw |-> FALSE, value |-> v]

\* hook.node.init.property.type === NumericLiteral && value === 0; reading
\* .type of an init without a property throws a TypeError
filterMemberWithHookVariableName(hook) ==
  IF hook.init.type # AST_NODE_TYPES.MEMBER_EXPRESSION THEN Threw
  ELSE Ret(/\ hook.init.property.type = AST_NODE_TYPES.NUMERIC_LITERAL
           /\ hook.init.property.value = 0)

\* getHookVariableName giving a custom hook the empty string whatever its
\* declarator binds
getHookVariableName_customEmpty(hook, isCustomHook) ==
  IF isCustomHook THEN Ret("")
  ELSE IF hook.id.type = AST_NODE_TYPES.ARRAY_PATTERN
  THEN IF hook.id.elements = <<>> THEN Threw
       ELSE IF hook.id.elements[1] = Elision THEN Threw
       ELSE Ret(ElementName(hook.id.elements[1]))
  ELSE IF hook.id.type = AST_NODE_TYPES.IDENTIFIER
       THEN Ret(hook.id.name)
       ELSE Threw

\* getHookVariableName without the !isCustomHook test of its ArrayPattern
\* case: the empty string for every array pattern
getHookVariableName_alwaysEmpty(hook, isCustomHook) ==
  IF hook.id.type = AST_NODE_TYPES.ARRAY_PATTERN
  THEN Ret("")
  ELSE IF hook.id.type = AST_NODE_TYPES.IDENTIFIER
       THEN Ret(hook.id.name)
       ELSE Threw

\* elements[0].name throws a TypeError when the pattern is empty or starts
\* with a hole, and is undefined when the first element is not an identifier
getHookVariableName(hook, isCustomHook) ==
  IF hook.id.type = AST_NODE_TYPES.ARRAY_PATTERN
  THEN IF isCustomHook THEN Ret("")
       ELSE IF hook.id.elements = <<>> THEN Threw
            ELSE IF hook.id.elements[1] = Elision THEN Threw
            ELSE Ret(ElementName(hook.id.elements[1]))
  ELSE IF hook.id.type = AST_NODE_TYPES.IDENTIFIER
       THEN Ret(hook.id.name)
       ELSE Threw

\* getHookNodeWithInjectedVariableName whose default case takes the name of
\* the first associated node when there is one
InjectedVariableName_firstReader(originalHook, nodes, potentialReactHookASTNode) ==
  LET isCustomHook == originalHook.id = Null
  IN IF Len(nodes) = 1
     THEN IF isCustomHook /\ nodes[1].key = potentialReactHookASTNode.key
          THEN getHookVariableName(potentialReactHookASTNode, isCustomHook)
          ELSE getHookVariableName(nodes[1], FALSE)
     ELSE IF Len(nodes) = 2
     THEN LET t1 == filterMemberWithHookVariableName(nodes[1])
              t2 == filterMemberWithHookVariableName(nodes[2])
          IN IF t1.threw \/ t2.threw THEN Threw
             ELSE IF t1.value = t2.value THEN Threw
             ELSE getHookVariableName(IF t1.value THEN nodes[1] ELSE nodes[2],
                                      FALSE)
     ELSE IF nodes = <<>>
     THEN getHookVariableName(potentialReactHookASTNode, FALSE)
     ELSE getHookVariableName(nodes[1], FALSE)

\* the hookVariableName computed by getHookNodeWithInjectedVariableName
InjectedVariableName(originalHook, nodes, potentialReactHookASTNode) ==
  LET isCustomHook == originalHook.id = Null
  IN IF Len(nodes) = 1
     THEN IF isCustomHook /\ nodes[1].key = potentialReactHookASTNode.key
          THEN getHookVariableName(potentialReactHookASTNode, isCustomHook)
          ELSE getHookVariableName(nodes[1], FALSE)
     ELSE IF Len(nodes) = 2
     THEN LET t1 == filterMemberWithHookVariableName(nodes[1])
              t2 == filterMemberWithHookVariableName(nodes[2])
          IN IF t1.threw \/ t2.threw THEN Threw
             ELSE IF t1.value = t2.value THEN Threw
             ELSE getHookVariableName(IF t1.value THEN nodes[1] ELSE nodes[2],
                                      FALSE)
     ELSE getHookVariableName(potentialReactHookASTNode, FALSE)


(***************************************************************************)
(* The world of one call: bundles, their source maps and original sources  *)
(***************************************************************************)
Decl(key, line, id, init) ==
  [key |-> key, loc |-> [start |-> [line |-> line]], id |-> id, init |-> init]
\* elements: an identifier is its name, a hole is Elision, a node that is
\* not an identifier is an element of NonIdentifiers
ArrayPattern(elements) ==
  [type |-> "ArrayPattern", elements |-> elements]
Identifier(name) == [type |-> "Identifier", name |-> name]
ObjectPattern == [type |-> "ObjectPattern"]
Member(object, property) ==
  [type |-> "MemberExpression", computed |-> FALSE,
   object |-> object, property |-> property]
Index(object, n) ==
  [type |-> "MemberExpression", computed |-> TRUE, object |-> object,
   property |-> [type |-> "NumericLiteral", value |-> n]]
Call(callee) == [type |-> "CallExpression", callee |-> callee]
React == <<"R","e","a","c","t">>
useRef == <<"u","s","e","R","e","f">>
useCustomHook == <<"u","s","e","C","u","s","t","o","m","H","o","o","k">>
useTheme == <<"u","s","e","T","h","e","m","e">>
compute == <<"c","o","m","p","u","t","e">>

\* App.js, the original source behind BundleA
\*   3: const [count, setCount] = React.useState(1);
\*   4: const totalState = useState(1);
\*   5: const total = totalState[0];
\*   6: const setTotal = totalState[1];
\*   7: useEffect(() => {...});
\*   8: const [customFlag, customRef] = useCustomHook();
\*   9: useLogger();
\*  10: React.useMemo(() => {...});
\*  11: const theme = useTheme();
AppDeclarators ==
  << Decl(1, 3, ArrayPattern(<<"count", "setCount">>),
          Call(Member(Identifier(React), Identifier(useState)))),
     Decl(2, 4, Identifier("totalState"), Call(Identifier(useState))),
     Decl(3, 5, Identifier("total"), Index(Identifier("totalState"), 0)),
     Decl(4, 6, Identifier("setTotal"), Index(Identifier("totalState"), 1)),
     Decl(5, 8, ArrayPattern(<<"customFlag", "customRef">>),
          Call(Identifier(useCustomHook))),
     Decl(6, 11, Identifier("theme"), Call(Identifier(useTheme))) >>

\* Lib.js, the original source behind BundleB
\*   3: const ref = useRef(null);
\*   4: const [flag, setFlag] = useState(0);
\*   5: const other = compute();
\*   6: useContext(ThemeContext);
LibDeclarators ==
  << Decl(1, 3, Identifier("ref"), Call(Identifier(useRef))),
     Decl(2, 4, ArrayPattern(<<"flag", "setFlag">>), Call(Identifier(useState))),
     Decl(3, 5, Identifier("other"), Call(Identifier(compute))) >>

\* Util.js, the original source behind BundleC
\*   3: const [open, setOpen] = useState(false);
UtilDeclarators ==
  << Decl(1, 3, ArrayPattern(<<"open", "setOpen">>), Call(Identifier(useState))) >>

BundleA == <<"http:", "", "localhost", "js", "main.chunk.js">>
BundleB == <<"http:", "", "localhost", "js", "vendor.chunk.js">>
BundleC == <<"http:", "", "localhost", "js", "util.chunk.js">>
Bundles == {BundleA, BundleB, BundleC}

CodeLine == [kind |-> "code"]
SourceMappingURL(token) == [kind |-> "sourceMappingURL", token |-> token]
MapToken(url) ==
  IF url = BundleA THEN "main.chunk.js.map"
  ELSE IF url = BundleB THEN "vendor.chunk.js.map" ELSE "util.chunk.js.map"

\* The bodies a bundle URL can answer with: the bundler's usual single
\* trailing comment, no comment, and two comments.
BundleTexts(url) ==
  { <<CodeLine, SourceMappingURL(MapToken(url))>>,
    <<CodeLine>>,
    <<CodeLine, SourceMappingURL("old.map"), SourceMappingURL(MapToken(url))>> }

\* A source-map document: whether its text is JSON, the positions it maps
\* (generated <<line, column>> to original source and line) and the original
\* content it embeds (whether it parses, and its declarators).
MapDocument(url, json, syntaxOk) ==
  IF url = BundleA
  THEN [ json |-> json,
         mappings |-> (<<1, 30>> :> [source |-> "App.js", line |-> 3]) @@
                      (<<1, 40>> :> [source |-> "App.js", line |-> 4]) @@
                      (<<1, 70>> :> [source |-> "App.js", line |-> 7]) @@
                      (<<1, 80>> :> [source |-> "App.js", line |-> 8]) @@
                      (<<1, 90>> :> [source |-> "App.js", line |-> 9]) @@
                      (<<1, 100>> :> [source |-> "App.js", line |-> 10]) @@
                      (<<1, 110>> :> [source |-> "App.js", line |-> 11]),
         sourcesContent |->
           ("App.js" :> [syntaxOk |-> syntaxOk, declarators |-> AppDeclarators]) ]
  ELSE IF url = BundleB
  THEN [ json |-> json,
         mappings |-> (<<1, 0>> :> [source |-> "Lib.js", line |-> 4]) @@
                      (<<1, 30>> :> [source |-> "Lib.js", line |-> 3]) @@
                      (<<1, 40>> :> [source |-> "Lib.js", line |-> 4]) @@
                      (<<1, 60>> :> [source |-> "Lib.js", line |-> 6]),
         sourcesContent |->
           ("Lib.js" :> [syntaxOk |-> syntaxOk, declarators |-> LibDeclarators]) ]
  ELSE [ json |-> json,
         mappings |-> (<<1, 30>> :> [source |-> "Util.js", line |-> 3]),
         sourcesContent |->
           ("Util.js" :> [syntaxOk |-> syntaxOk, declarators |-> UtilDeclarators]) ]

\* The bodies a source-map URL can answer with: a good map, text that is not
\* JSON, and a map whose embedded source has a syntax error.
MapTexts(url) ==
  { MapDocument(url, TRUE, TRUE),
    MapDocument(url, FALSE, TRUE),
    MapDocument(url, TRUE, FALSE) }

Sources == {"App.js", "Lib.js", "Util.js"}

(***************************************************************************)
(* Hook observations                                                       *)
(***************************************************************************)
Hook(id, name, fileName, lineNumber, columnNumber, subHooks) ==
  [ id |-> id, name |-> name, subHooks |-> subHooks,
    hookSource |-> [fileName |-> fileName, lineNumber |-> lineNumber,
                    columnNumber |-> columnNumber],
    hookVariableName |-> Undefined ]

\* sub-hooks of the custom hooks, both in Lib.js:
\* const [flag, setFlag] = useState(0), and useContext(ThemeContext)
FlagHook == Hook(10, "State", BundleB, 1, 40, <<>>)
ContextHook == Hook(11, "Context", BundleB, 1, 60, <<>>)

\* The hooks an inspected component can report.
HookTemplates ==
  { Hook(0, "State", BundleA, 1, 30, <<>>),             \* line 3, count
    Hook(1, "Effect", BundleA, 1, 70, <<>>),            \* line 7, no declarator
    Hook(Null, "CustomHook", BundleA, 1, 80, <<FlagHook>>), \* line 8
    Hook(Null, "Logger", BundleA, 1, 90, <<FlagHook>>), \* line 9, no declarator
    Hook(2, "Memo", BundleA, 1, 100, <<>>),             \* line 10, no declarator
    Hook(3, "Ref", BundleB, 1, 30, <<>>),               \* Lib.js line 3, ref
    Hook(4, "State", NoFile, Null, Null, <<>>),         \* no source location
    Hook(5, "State", BundleA, 1, Null, <<>>),           \* column unknown
    Hook(Null, "Theme", BundleA, 1, 110, <<ContextHook>>) } \* line 11, theme

\* A component reports a hook once: the logs are the sequences of at most
\* MaxHooks different hooks.
HookLogs ==
  {s \in UNION {[1..n -> HookTemplates] : n \in 0..MaxHooks} :
     \A i, j \in 1..Len(s) : i # j => s[i] # s[j]}

\* a hook of a third bundle: line 3 of Util.js, open
OpenHook == Hook(7, "State", BundleC, 1, 30, <<>>)

MaxOrderHooks == 4

\* the hooks of a component whose custom hook, of BundleA, calls a hook of
\* BundleB, between hooks of BundleA, BundleB and BundleC
OrderTemplates ==
  { Hook(0, "State", BundleA, 1, 30, <<>>),
    OpenHook,
    Hook(Null, "CustomHook", BundleA, 1, 80, <<FlagHook>>),
    Hook(3, "Ref", BundleB, 1, 30, <<>>) }

\* the hook logs of at most MaxOrderHooks different hooks of them
OrderLogs ==
  {s \in UNION {[1..n -> OrderTemplates] : n \in 0..MaxOrderHooks} :
     \A i, j \in 1..Len(s) : i # j => s[i] # s[j]}

\* a hook reported at column 0 of its bundle: line 4 of Lib.js, flag
ZeroColumnHook == Hook(6, "State", BundleB, 1, 0, <<>>)

MaxPositionHooks == 2

\* the hook logs of at most MaxPositionHooks hooks, the hook of column 0
\* among the templates
PositionLogs ==
  {s \in UNION {[1..n -> HookTemplates \cup {ZeroColumnHook}] :
                  n \in 1..MaxPositionHooks} :
     \A i, j \in 1..Len(s) : i # j => s[i] # s[j]}


(***************************************************************************)
(* Pure steps of the pipeline                                              *)
(***************************************************************************)
RECURSIVE getUniqueFileNames(_)
getUniqueFileNames(hookLog_) ==
  IF Len(hookLog_) <= 0 THEN <<>>
  ELSE LET hook == hookLog_[Len(hookLog_)]
           before == getUniqueFileNames(SubSeq(hookLog_, 1, Len(hookLog_) - 1))
           own == IF hook.hookSource.fileName # NoFile
                  THEN <<hook.hookSource.fileName>> ELSE <<>>
           sub == IF Len(hook.subHooks) > 0
                  THEN getUniqueFileNames(hook.subHooks) ELSE <<>>
       IN Dedup(before \o own \o sub)

\* new URL(possibleURL) succeeds on an absolute URL
isValidUrl(possibleURL) ==
  /\ Len(possibleURL) >= 1
  /\ possibleURL[1] \in {"http:", "https:", "file:"}

IsSourceMappingURL(line) == line.kind = "sourceMappingURL"

\* getSourceMapURL without the check for more than one match: the first
\* match is used
getSourceMapURL_firstMatch(url, urlResponse) ==
  LET sourceMappingURLInArray == SelectSeq(urlResponse, IsSourceMappingURL)
  IN IF Len(sourceMappingURLInArray) = 0 THEN Threw
     ELSE Ret(Append(SubSeq(url, 1, Len(url) - 1),
                     sourceMappingURLInArray[1].token))

getSourceMapURL(url, urlResponse) ==
  LET sourceMappingURLInArray == SelectSeq(urlResponse, IsSourceMappingURL)
  IN IF Len(sourceMappingURLInArray) > 1 THEN Threw
     \* match() gave null: reading [0] of it is a TypeError
     ELSE IF Len(sourceMappingURLInArray) = 0 THEN Threw
     ELSE LET sourceMapURL == sourceMappingURLInArray[1].token
              baseURL == SubSeq(url, 1, Len(url) - 1)
              completeSourceMapURL == Append(baseURL, sourceMapURL)
          IN IF ~isValidUrl(completeSourceMapURL) THEN Threw
             ELSE Ret(completeSourceMapURL)

\* What fetch(url) can do, and how the promise of fetchFile settles on it.
\*   "ok"       the response is 2xx and its body is read
\*   "notOk"    the response is not 2xx
\*   "textFail" the response is 2xx and reading the body fails
\*   "netFail"  fetch itself rejects
FetchOutcomes == {"ok", "notOk", "textFail", "netFail"}

\* fetchFile without the res.ok test: any response whose body is read resolves
fetchFile_okUnchecked(outcome) ==
  IF outcome \in {"ok", "notOk"} THEN "resolved"
  ELSE IF outcome = "textFail" THEN "rejected"
  ELSE "pending"

fetchFile(outcome) ==
  IF outcome = "ok" THEN "resolved"
  ELSE IF outcome \in {"notOk", "textFail"} THEN "rejected"
  ELSE "pending"   \* fetch(url).then(...) has no rejection handler

\* indices into hookLog of the hooks getRelevantHooksForFile returns
getRelevantHooksForFile(hookLog_, sourceUrl) ==
  LET Relevant(i) ==
        /\ hookLog_[i].hookSource.fileName # NoFile
        /\ hookLog_[i].hookSource.fileName = sourceUrl
      idx == [i \in 1..Len(hookLog_) |-> i]
  IN SelectSeq(idx, Relevant)

FAIL_SAFE_CHECK == 100000

originalPositionFor(consumer, line, column) ==
  IF <<line, column>> \in DOMAIN consumer.mappings
  THEN consumer.mappings[<<line, column>>]
  ELSE [source |-> Undefined, line |-> Null]

\* a parser that recovers from every syntax error
getASTFromSourceFileContents_recovering(fileContents) ==
  Ret(fileContents.declarators)

\* parse(): the sequence of the file's declarators, or a SyntaxError
getASTFromSourceFileContents(fileContents) ==
  IF fileContents.syntaxOk THEN Ret(fileContents.declarators) ELSE Threw

\* The rest of getASTFromSourceFile once the position is translated:
\* [threw] or [line, source, sourceFileAST, parsed]; parsed tells whether the
\* source was parsed by this call (astCache is the set of cached sources).
ASTForPosition(consumer, pos, astCache) ==
  IF pos.line > FAIL_SAFE_CHECK THEN Threw
  ELSE IF pos.source \in astCache
  THEN [threw |-> FALSE, line |-> pos.line, source |-> pos.source,
        sourceFileAST |-> consumer.sourcesContent[pos.source].declarators,
        parsed |-> <<>>]
  \* sourceContentFor(null, true) is null, and parse(null) throws
  ELSE IF pos.source \notin DOMAIN consumer.sourcesContent THEN Threw
  ELSE IF getASTFromSourceFileContents(consumer.sourcesContent[pos.source]).threw
  THEN Threw
  ELSE [threw |-> FALSE, line |-> pos.line, source |-> pos.source,
        sourceFileAST |->
          getASTFromSourceFileContents(consumer.sourcesContent[pos.source]).value,
        parsed |-> <<pos.source>>]

getASTFromSourceFile(consumer, lineNumber, columnNumber, astCache) ==
  ASTForPosition(consumer,
                 originalPositionFor(consumer, lineNumber, columnNumber),
                 astCache)

\* Array.prototype.find: the first element satisfying the test, or none
FindConfirmed(potentialHooksFound, line) ==
  LET Hit(node) == checkNodeLocation(node, line) /\ isConfirmedHookDeclaration(node)
  IN SelectSeq(potentialHooksFound, Hit)

(***************************************************************************)
(* One iteration of relevantHooks.map in modifyHooksToAddVariableNames,    *)
(* for the hook at index i of the processed log. pools maps a source to    *)
(* its cached pool (potentialHooksOfFile; <<>> when absent). The result    *)
(* tells whether the iteration threw, else the returned node (copy: a new  *)
(* object made by getHookNodeWithInjectedVariableName, otherwise the hook  *)
(* object itself) and whether injectSubHooksWithVariableNames was called   *)
(* on it; and the pools afterwards, the sources parsed and the sources     *)
(* whose pool was collected.                                               *)
(* injectSubHooksWithVariableNames calls modifyHooksToAddVariableNames,    *)
(* whose JSON.parse of every source map runs before it returns its         *)
(* promise: with a map that is not JSON the call throws (injectThrows),    *)
(* after it has handed a callback to SourceMapConsumer.with for every map  *)
(* before that one. `injected` holds the call made, if any, thrown or not: *)
(* the index of the hook and whether it was made on the copy.              *)
(***************************************************************************)
\* injectSubHooksWithVariableNames was called on the i-th hook, or its copy
InjectedOn(i, copy) == <<[index |-> i, copy |-> copy]>>

Thrown(injected, pools, parsed, collected) ==
  [threw |-> TRUE, injected |-> injected,
   pools |-> pools, parsed |-> parsed, collected |-> collected]

Returned(i, copy, name, injected, pools, parsed, collected) ==
  [threw |-> FALSE, injected |-> injected,
   node |-> [index |-> i, copy |-> copy, hookVariableName |-> name],
   pools |-> pools, parsed |-> parsed, collected |-> collected]

\* the try block: name is what getHookNodeWithInjectedVariableName computed
InjectName(hook, i, injectThrows, name, pools, parsed, collected) ==
  IF name.threw
  THEN \* catch (e): return hook
       Returned(i, FALSE, hook.hookVariableName, <<>>, pools, parsed, collected)
  ELSE IF Len(hook.subHooks) > 0 /\ injectThrows
  THEN \* injectSubHooksWithVariableNames(newHook, ...) threw; return hook
       Returned(i, FALSE, hook.hookVariableName, InjectedOn(i, TRUE),
                pools, parsed, collected)
  ELSE Returned(i, TRUE, name.value,
                IF Len(hook.subHooks) > 0 THEN InjectedOn(i, TRUE) ELSE <<>>,
                pools, parsed, collected)

\* ResolveHook whose first throw is a `return hook`
ResolveHook_nonFatal(hook, i, injectThrows, source, potentialHooksFound, found, pools, parsed, collected) ==
  IF found = <<>>
  THEN IF hook.id = Null /\ injectThrows
       THEN Thrown(InjectedOn(i, FALSE), pools, parsed, collected)
       ELSE Returned(i, FALSE, hook.hookVariableName,
                     IF hook.id = Null THEN InjectedOn(i, FALSE) ELSE <<>>,
                     pools, parsed, collected)
  ELSE InjectName(hook, i, injectThrows,
         InjectedVariableName(hook,
           getFilteredHookASTNodes(found[1], potentialHooksFound), found[1]),
         [pools EXCEPT ![source] = SplicedPool(found[1], potentialHooksFound)],
         parsed, collected)

\* from the find on: found is what potentialHooksFound.find returned
ResolveHook(hook, i, injectThrows, source, potentialHooksFound, found, pools, parsed, collected) ==
  IF found = <<>>
  THEN IF hook.id # Null /\ ~isNonDeclarativePrimitiveHook(hook)
       THEN Thrown(<<>>, pools, parsed, collected)
       ELSE IF hook.id = Null /\ injectThrows
       THEN \* injectSubHooksWithVariableNames(hook, ...) threw
            Thrown(InjectedOn(i, FALSE), pools, parsed, collected)
       ELSE Returned(i, FALSE, hook.hookVariableName,
                     IF hook.id = Null THEN InjectedOn(i, FALSE) ELSE <<>>,
                     pools, parsed, collected)
  ELSE InjectName(hook, i, injectThrows,
         InjectedVariableName(hook,
           getFilteredHookASTNodes(found[1], potentialHooksFound), found[1]),
         [pools EXCEPT ![source] = SplicedPool(found[1], potentialHooksFound)],
         parsed, collected)

\* from the pool on: potentialHooksFound is the pool of the hook's source
FindHook(hook, i, injectThrows, got, potentialHooksFound, pools, collected) ==
  ResolveHook(hook, i, injectThrows, got.source, potentialHooksFound,
              FindConfirmed(potentialHooksFound, got.line),
              [pools EXCEPT ![got.source] = potentialHooksFound],
              got.parsed, collected)

\* the pool is collected from the AST, unless the traversal throws
CollectFrom(hook, i, injectThrows, got, sourceFileAST, pools) ==
  IF TraversalThrows(sourceFileAST)
  THEN Thrown(<<>>, pools, got.parsed, <<>>)
  ELSE FindHook(hook, i, injectThrows, got,
                getPotentialHookDeclarationsFromAST(sourceFileAST),
                pools, <<got.source>>)

\* from the AST on: the cached pool, or a newly collected one when the
\* cache holds none or an empty one
CollectHooks(hook, i, injectThrows, got, pools) ==
  IF got.threw THEN Thrown(<<>>, pools, <<>>, <<>>)
  ELSE IF Len(pools[got.source]) > 0
  THEN FindHook(hook, i, injectThrows, got, pools[got.source], pools, <<>>)
  ELSE CollectFrom(hook, i, injectThrows, got, got.sourceFileAST, pools)

\* ProcessHook that returns a hook without line or column instead of throwing
ProcessHook_passThrough(hook, i, consumer, pools, astForSourceFiles, injectThrows) ==
  IF \/ hook.hookSource.lineNumber \in {Null, 0}
     \/ hook.hookSource.columnNumber \in {Null, 0}
  THEN Returned(i, FALSE, hook.hookVariableName, <<>>, pools, <<>>, <<>>)
  ELSE CollectHooks(hook, i, injectThrows,
         getASTFromSourceFile(consumer, hook.hookSource.lineNumber,
                              hook.hookSource.columnNumber, astForSourceFiles),
         pools)

ProcessHook(hook, i, consumer, pools, astForSourceFiles, injectThrows) ==
  \* !(lineNumber && columnNumber): null and 0 are falsy
  IF \/ hook.hookSource.lineNumber \in {Null, 0}
     \/ hook.hookSource.columnNumber \in {Null, 0}
  THEN Thrown(<<>>, pools, <<>>, <<>>)
  ELSE CollectHooks(hook, i, injectThrows,
         getASTFromSourceFile(consumer, hook.hookSource.lineNumber,
                              hook.hookSource.columnNumber, astForSourceFiles),
         pools)

\* What a run of relevantHooks.map gives: [threw, nodes, injects, parsed,
\* collected]; the iterations before a throw have had their effects, and so
\* has the call of injectSubHooksWithVariableNames that threw.
NoneMapped ==
  [threw |-> FALSE, nodes |-> <<>>, injects |-> <<>>,
   parsed |-> <<>>, collected |-> <<>>]

ThrewMapping(injected, parsed, collected) ==
  [threw |-> TRUE, nodes |-> <<>>, injects |-> injected,
   parsed |-> parsed, collected |-> collected]

Mapped(one, rest) ==
  [threw |-> rest.threw,
   nodes |-> <<one.node>> \o rest.nodes,
   injects |-> one.injected \o rest.injects,
   parsed |-> one.parsed \o rest.parsed,
   collected |-> one.collected \o rest.collected]

RECURSIVE MapRelevantHooks(_, _, _, _, _, _)
RECURSIVE MapFrom(_, _, _, _, _, _)
\* relevantHooks.map(...) over the indices `relevant` of `log`, from the
\* k-th on
MapRelevantHooks(log, relevant, k, consumer, pools, injectThrows) ==
  IF k > Len(relevant) THEN NoneMapped
  ELSE MapFrom(log, relevant, k, consumer, injectThrows,
               ProcessHook(log[relevant[k]], relevant[k], consumer, pools, {},
                           injectThrows))

\* the k-th iteration gave `one`
MapFrom(log, relevant, k, consumer, injectThrows, one) ==
  IF one.threw THEN ThrewMapping(one.injected, one.parsed, one.collected)
  ELSE Mapped(one, MapRelevantHooks(log, relevant, k + 1, consumer,
                                    one.pools, injectThrows))

NoPools == [s \in Sources |-> <<>>]

\* JSON.parse(text) of a downloaded source map throws on text that is not JSON
JSONParseThrows(sourceMap) == ~sourceMap.text.json

AnyNotJSON(sourceMaps) ==
  \E k \in 1..Len(sourceMaps) : JSONParseThrows(sourceMaps[k])

\* The callback modifyHooksToAddVariableNames hands to SourceMapConsumer.with
\* for one downloaded source map, over the log `log`.
WithConsumer(log, sourceMap, sourceMaps, sourceFileUrls) ==
  IF sourceMap.url \notin DOMAIN sourceFileUrls
  THEN ThrewMapping(<<>>, <<>>, <<>>)
  ELSE MapRelevantHooks(log,
         getRelevantHooksForFile(log, sourceFileUrls[sourceMap.url]),
         1, sourceMap.text, NoPools, AnyNotJSON(sourceMaps))

\* the hook object a returned node stands for, as a value
NodeValue(log, node) ==
  [log[node.index] EXCEPT !.hookVariableName = node.hookVariableName]

NodeValues(log, nodes) == [j \in 1..Len(nodes) |-> NodeValue(log, nodes[j])]

SubData(subHooks, one, rest) ==
  [threw |-> one.threw \/ rest.threw,
   data |-> <<NodeValues(subHooks, one.nodes)>> \o rest.data,
   parsed |-> one.parsed \o rest.parsed,
   collected |-> one.collected \o rest.collected]

RECURSIVE SubHooksData(_, _, _, _)
\* modifyHooksToAddVariableNames(hook.subHooks, ...) as a whole, from the
\* k-th source map on: whether its promise rejects, and the per-map arrays.
\* The sub-hooks have no sub-hooks of their own (hook logs nest two deep).
SubHooksData(subHooks, sourceMaps, k, sourceFileUrls) ==
  IF k > Len(sourceMaps)
  THEN [threw |-> FALSE, data |-> <<>>, parsed |-> <<>>, collected |-> <<>>]
  ELSE SubData(subHooks,
         WithConsumer(subHooks, sourceMaps[k], sourceMaps, sourceFileUrls),
         SubHooksData(subHooks, sourceMaps, k + 1, sourceFileUrls))

\* the count of each source raised by its occurrences in `sources`
Counted(count, sources) ==
  [s \in Sources |->
     count[s] + Cardinality({j \in 1..Len(sources) : sources[j] = s})]

(***************************************************************************)
(* Hook objects. A hooks tree is an array of references to hook objects,   *)
(* and the subHooks of an object is an array of references: the same       *)
(* object can be in two trees, as the hook that modifyHooksToAddVariable-  *)
(* Names returns as it is (return hook) is in the log and in the result,   *)
(* and as the copy {...originalHook, hookVariableName} holds the subHooks  *)
(* array of the hook it was made of. A reference is the path of the        *)
(* object in the tree that allocated it: <<"old", 2>>, <<"old", 2, 1>>.    *)
(* A heap maps the references to the objects.                              *)
(***************************************************************************)
\* the references of the hooks of an array allocated at `base`
RefsOf(tree, base) == [j \in 1..Len(tree) |-> Append(base, j)]

\* the references of the hooks of a tree, at every depth
RECURSIVE AllRefs(_, _)
AllRefs(tree, base) ==
  UNION {{Append(base, j)} \cup AllRefs(tree[j].subHooks, Append(base, j)) :
           j \in 1..Len(tree)}

\* the hook at a path of a tree
RECURSIVE HookAt(_, _)
HookAt(tree, path) ==
  IF Len(path) = 1 THEN tree[path[1]]
  ELSE HookAt(tree[path[1]].subHooks, Tail(path))

\* shared is a set of pairs <<reference of newHookLog, reference of
\* oldHookLog>>: the hook at the first is the object at the second
SharedWith(shared, ref) ==
  IF \E pair \in shared : pair[1] = ref
  THEN (CHOOSE pair \in shared : pair[1] = ref)[2]
  ELSE ref

\* the object of the hook at a reference, its subHooks an array of
\* references
ObjectAt(tree, ref, shared) ==
  [HookAt(tree, Tail(ref)) EXCEPT
     !.subHooks = [k \in 1..Len(@) |-> SharedWith(shared, Append(ref, k))]]

\* the objects of two trees of hook values, those of newHookLog that are in
\* `shared` being objects of oldHookLog
Allocated(oldHookLog, newHookLog, shared) ==
  [heap |->
     [ref \in AllRefs(oldHookLog, <<"old">>)
              \cup {ref \in AllRefs(newHookLog, <<"new">>) :
                      \A pair \in shared :
                         pair[1] # ref /\ pair[1] # SubSeq(ref, 1, 2)} |->
        IF ref[1] = "old" THEN ObjectAt(oldHookLog, ref, {})
        ELSE ObjectAt(newHookLog, ref, shared)],
   oldHookLog |-> RefsOf(oldHookLog, <<"old">>),
   newHookLog |-> [j \in 1..Len(newHookLog) |->
                     SharedWith(shared, <<"new", j>>)]]

\* the tree of hook values an array of references stands for
RECURSIVE TreeOf(_, _)
TreeOf(heap, hooks) ==
  [j \in 1..Len(hooks) |->
     [heap[hooks[j]] EXCEPT !.subHooks = TreeOf(heap, @)]]

(***************************************************************************)
(* mergeVariableNamesIntoHookLog(oldHookLog, newHookLog), the two          *)
(* arguments being arrays of references into heap. The result tells        *)
(* whether the call threw, and the heap as the call left it: forEach has   *)
(* written the positions before a throw.                                   *)
(***************************************************************************)
NotMerged(heap) == [threw |-> FALSE, heap |-> heap]

RECURSIVE MergeFrom(_, _, _, _)

\* hook.hookVariableName = modifiedHookFromNewHookLog.hookVariableName
Written(heap, hook, modifiedHookFromNewHookLog) ==
  [heap EXCEPT ![hook].hookVariableName =
                 heap[modifiedHookFromNewHookLog].hookVariableName]

\* the recursion into the subHooks of a pair, when both have as many
MergeSubHooks(heap, hook, modifiedHookFromNewHookLog) ==
  IF /\ Len(heap[hook].subHooks) > 0
     /\ Len(heap[hook].subHooks) = Len(heap[modifiedHookFromNewHookLog].subHooks)
  THEN MergeFrom(heap, heap[hook].subHooks,
                 heap[modifiedHookFromNewHookLog].subHooks, 1)
  ELSE NotMerged(heap)

\* the forEach callback without its test of the ids
MergeHook_anyId(heap, hook, modifiedHookFromNewHookLog) ==
  MergeSubHooks(Written(heap, hook, modifiedHookFromNewHookLog), hook,
                modifiedHookFromNewHookLog)

\* the body of the forEach callback for one hook and its counterpart
MergeHook(heap, hook, modifiedHookFromNewHookLog) ==
  IF heap[hook].id = heap[modifiedHookFromNewHookLog].id
  THEN MergeSubHooks(Written(heap, hook, modifiedHookFromNewHookLog), hook,
                     modifiedHookFromNewHookLog)
  ELSE NotMerged(heap)

\* the callback of position idx gave `one`
MergeRest(oldHookLog, newHookLog, idx, one) ==
  IF one.threw THEN one
  ELSE MergeFrom(one.heap, oldHookLog, newHookLog, idx + 1)

\* oldHookLog.forEach from position idx on; newHookLog[idx] is undefined
\* beyond the end of newHookLog, and reading .id of it is a TypeError
MergeFrom(heap, oldHookLog, newHookLog, idx) ==
  IF idx > Len(oldHookLog) THEN NotMerged(heap)
  ELSE IF idx > Len(newHookLog) THEN [threw |-> TRUE, heap |-> heap]
  ELSE MergeRest(oldHookLog, newHookLog, idx,
                 MergeHook(heap, oldHookLog[idx], newHookLog[idx]))

mergeVariableNamesIntoHookLog(heap, oldHookLog, newHookLog) ==
  MergeFrom(heap, oldHookLog, newHookLog, 1)

\* the call on the objects `objects`: whether it threw, and the two trees
\* as the call left them
MergedTrees(objects, merged) ==
  [threw |-> merged.threw,
   oldHookLog |-> TreeOf(merged.heap, objects.oldHookLog),
   newHookLog |-> TreeOf(merged.heap, objects.newHookLog)]

MergeObjects(objects) ==
  MergedTrees(objects,
    mergeVariableNamesIntoHookLog(objects.heap, objects.oldHookLog,
                                  objects.newHookLog))

\* The trees handed to mergeVariableNamesIntoHookLog: sequences of at most
\* MaxMergeLen of these hooks, unnamed as the backend reports them or named
\* as a resolution returns them.
Named(hook, name) == [hook EXCEPT !.hookVariableName = name]

WithSubHooks(hook, subHooks) == [hook EXCEPT !.subHooks = subHooks]

MergeHooks ==
  { Hook(0, "State", BundleA, 1, 30, <<>>),
    Named(Hook(0, "State", BundleA, 1, 30, <<>>), "count"),
    Hook(1, "Effect", BundleA, 1, 70, <<>>),
    Hook(Null, "CustomHook", BundleA, 1, 80, <<FlagHook>>),
    Named(Hook(Null, "CustomHook", BundleA, 1, 80,
               <<Named(FlagHook, "flag")>>), ""),
    Hook(Null, "Theme", BundleA, 1, 110, <<FlagHook, ContextHook>>),
    Named(Hook(Null, "Theme", BundleA, 1, 110,
               <<Named(FlagHook, "flag"), ContextHook>>), "theme"),
    Named(Hook(Null, "Theme", BundleA, 1, 110,
               <<Named(ContextHook, "context"), Named(FlagHook, "flag")>>),
          "theme") }

MergeTrees == UNION {[1..n -> MergeHooks] : n \in 0..MaxMergeLen}

\* the pairs a sharing can hold: the two hooks are at the same depth and
\* have the same value
Shareable(oldHookLog, newHookLog) ==
  {pair \in AllRefs(newHookLog, <<"new">>) \X AllRefs(oldHookLog, <<"old">>) :
     /\ Len(pair[1]) = Len(pair[2])
     /\ HookAt(newHookLog, Tail(pair[1])) = HookAt(oldHookLog, Tail(pair[2]))}

\* The objects two trees can share: an object is once in a tree, and the
\* sub-hooks of a shared hook are shared with it.
Sharings(oldHookLog, newHookLog) ==
  {shared \in SUBSET Shareable(oldHookLog, newHookLog) :
     /\ shared # {}
     /\ \A p, q \in shared : (p[1] = q[1]) <=> (p[2] = q[2])
     /\ \A p, q \in shared : Len(q[1]) = 3 => p[1] # SubSeq(q[1], 1, 2)}

(***************************************************************************)
(* State of one call of injectHookVariableNamesFunction                    *)
(***************************************************************************)
(***************************************************************************)
(* getFilteredHookASTNodes and getHookNodeWithInjectedVariableName on one  *)
(* file: a hook declared at line 3 and up to MaxReaders declarators after  *)
(* it                                                                      *)
(***************************************************************************)
MaxReaders == 3

\*   3: const countState = React.useState(1);   (or useState, useReducer, useRef)
\*   3: const customFlag = useCustomHook();
\*   3: const [customFlag, customRef] = useCustomHook();
\*   3: const {current} = useRef(null);
\*   3: const {value} = useCustomHook();
NamingTargets ==
  { Decl(1, 3, Identifier("countState"), Call(callee)) :
      callee \in { Member(Identifier(React), Identifier(useState)),
                   Identifier(useState), Identifier(useReducer),
                   Identifier(useRef) } }
  \cup
  { Decl(1, 3, Identifier("customFlag"), Call(Identifier(useCustomHook))),
    Decl(1, 3, ArrayPattern(<<"customFlag", "customRef">>),
         Call(Identifier(useCustomHook))),
    Decl(1, 3, ObjectPattern, Call(Identifier(useRef))),
    Decl(1, 3, ObjectPattern, Call(Identifier(useCustomHook))) }

\* a later declarator of the file
ReaderShape(id, init) == [id |-> id, init |-> init]

\*   const [count, setCount] = countState;   const [, setCount] = countState;
\*   const [{a}, setCount] = countState;
\*   const count = countState;               const {length} = countState;
\*   const count = countState[0];            const {length} = countState[0];
\*   const setCount = countState[1];
\*   const copy = other;   const computed = compute();   const ref = useRef(null);
ReaderShapes ==
  { ReaderShape(ArrayPattern(<<"count", "setCount">>), Identifier("countState")),
    ReaderShape(ArrayPattern(<<Elision, "setCount">>), Identifier("countState")),
    ReaderShape(ArrayPattern(<<"{a}", "setCount">>), Identifier("countState")),
    ReaderShape(Identifier("count"), Identifier("countState")),
    ReaderShape(ObjectPattern, Identifier("countState")),
    ReaderShape(Identifier("count"), Index(Identifier("countState"), 0)),
    ReaderShape(ObjectPattern, Index(Identifier("countState"), 0)),
    ReaderShape(Identifier("setCount"), Index(Identifier("countState"), 1)),
    ReaderShape(Identifier("copy"), Identifier("other")),
    ReaderShape(Identifier("computed"), Call(Identifier(compute))),
    ReaderShape(Identifier("ref"), Call(Identifier(useRef))) }

\* the VariableDeclarators of the file, in source order
NamingFile(target, shapes) ==
  <<target>> \o [j \in 1..Len(shapes) |->
                   Decl(1 + j, 3 + j, shapes[j].id, shapes[j].init)]

NamingFiles ==
  { NamingFile(target, shapes) :
      target \in NamingTargets,
      shapes \in UNION {[1..n -> ReaderShapes] : n \in 0..MaxReaders} }

\* the hook the declarator of line 3 is looked up for: a primitive hook, or
\* a custom hook (id null) when the declarator calls useCustomHook
NamingHook == Hook(0, "State", BundleA, 1, 30, <<>>)

NamingHookOf(target) ==
  IF target.init.callee = Identifier(useCustomHook)
  THEN Hook(Null, "CustomHook", BundleA, 1, 30, <<>>)
  ELSE NamingHook

(***************************************************************************)
(* The classifiers on one declarator, and the collection of the pool of a  *)
(* file made of it and of up to MaxOthers declarators after it             *)
(***************************************************************************)
MaxOthers == 1

\* use, user, used, useState, use1, UseState
CalleeNames ==
  { <<"u","s","e">>, <<"u","s","e","r">>, <<"u","s","e","d">>, useState,
    <<"u","s","e","1">>, <<"U","s","e","S","t","a","t","e">> }

\* object.property or object[property]
MemberOf(object, computed, property) ==
  [type |-> "MemberExpression", computed |-> computed,
   object |-> object, property |-> property]

\* what a declarator's init calls: a name; React.useState, React.user,
\* react.useState, React[useState], ...; React.hooks.useState; the result of
\* a call, useState()()
Callees ==
  { Identifier(name) : name \in CalleeNames }
  \cup
  { MemberOf(Identifier(object), computed, Identifier(name)) :
      object \in {React, <<"r","e","a","c","t">>}, computed \in BOOLEAN,
      name \in {useState, <<"u","s","e","r">>} }
  \cup
  { Member(Member(Identifier(React), Identifier(<<"h","o","o","k","s">>)),
           Identifier(useState)),
    Call(Identifier(useState)) }

\* the declarator of line 3: it binds ref, [count, setCount], [, setCount],
\* [{a}, setCount], [...rest], [] or {...} to a call, to countState, to
\* countState[0], to 1 or to nothing
ClassifiedDeclarators ==
  { Decl(1, 3, id, init) :
      id \in { Identifier("ref"), ArrayPattern(<<"count", "setCount">>),
               ArrayPattern(<<Elision, "setCount">>),
               ArrayPattern(<<"{a}", "setCount">>),
               ArrayPattern(<<"...rest">>), ArrayPattern(<<>>),
               ObjectPattern },
      init \in { Call(callee) : callee \in Callees }
               \cup { Identifier("countState"),
                      Index(Identifier("countState"), 0),
                      [type |-> "NumericLiteral", value |-> 1], NoInit } }

\*   const flag = useRef(null);   const total = totalState[0];   let x;
\*   const n = 1;
OtherDeclarators ==
  { ReaderShape(Identifier("flag"), Call(Identifier(useRef))),
    ReaderShape(Identifier("total"), Index(Identifier("totalState"), 0)),
    ReaderShape(Identifier("x"), NoInit),
    ReaderShape(Identifier("n"), [type |-> "NumericLiteral", value |-> 1]) }

ClassifiedFiles ==
  { NamingFile(path, shapes) :
      path \in ClassifiedDeclarators,
      shapes \in UNION {[1..n -> OtherDeclarators] : n \in 0..MaxOthers} }

(***************************************************************************)
(* The hooks of one component resolved one after the other against the     *)
(* pool of its file: a component of up to MaxStatements statements, each   *)
(* on a line of its own or all of them on line 3                           *)
(***************************************************************************)
MaxStatements == 3

\* a statement of the component: the hook it reports ("none": no hook),
\* whether the hook is a custom one, and the declarator it holds, if any
Statement(name, custom, declares, id, init) ==
  [name |-> name, custom |-> custom, declares |-> declares,
   id |-> id, init |-> init]

\*   const [count, setCount] = useState(0);    const ref = React.useRef(null);
\*   useEffect(() => {});    useLogger();      useMemo(() => 1);
\*   const current = ref.current;              const theme = useTheme();
PoolStatements ==
  { Statement("State", FALSE, TRUE, ArrayPattern(<<"count", "setCount">>),
              Call(Identifier(useState))),
    Statement("Ref", FALSE, TRUE, Identifier("ref"),
              Call(Member(Identifier(React), Identifier(useRef)))),
    Statement("Effect", FALSE, FALSE, NoInit, NoInit),
    Statement("Logger", TRUE, FALSE, NoInit, NoInit),
    Statement("Memo", FALSE, FALSE, NoInit, NoInit),
    Statement("none", FALSE, TRUE, Identifier("current"),
              Member(Identifier("ref"), Identifier("current"))),
    Statement("Theme", TRUE, TRUE, Identifier("theme"),
              Call(Identifier(useTheme))) }

\* the statements of a component in source order, no statement twice
PoolComponents ==
  { [statements |-> statements, oneLine |-> oneLine] :
      statements \in { q \in UNION {[1..n -> PoolStatements] : n \in 0..MaxStatements} :
                         \A i, j \in DOMAIN q : q[i] = q[j] => i = j },
      oneLine \in BOOLEAN }

\* the line of the j-th statement
LineOf(component, j) == IF component.oneLine THEN 3 ELSE 2 + j

Numbered(component) ==
  [j \in 1..Len(component.statements) |->
     [j |-> j, statement |-> component.statements[j]]]

Declares(entry) == entry.statement.declares
Reports(entry) == entry.statement.name # "none"

DeclaratorOf(component, entry) ==
  Decl(entry.j, LineOf(component, entry.j), entry.statement.id, entry.statement.init)

\* the hook the statement reports, with the line its position translates to
ReportOf(component, entry) ==
  [ hook |-> Hook(IF entry.statement.custom THEN Null ELSE entry.j,
                  entry.statement.name, BundleA, 1, 10 * entry.j, <<>>),
    line |-> LineOf(component, entry.j) ]

\* the VariableDeclarators of the component's file, in source order
PoolFile(component) ==
  [i \in 1..Len(SelectSeq(Numbered(component), Declares)) |->
     DeclaratorOf(component, SelectSeq(Numbered(component), Declares)[i])]

\* the hook log of the component: its hooks in the order they are called
PoolHooks(component) ==
  [i \in 1..Len(SelectSeq(Numbered(component), Reports)) |->
     ReportOf(component, SelectSeq(Numbered(component), Reports)[i])]

VARIABLES
  hookLog,        \* the argument: the hook objects as they were passed in
  subHooksOf,     \* subHooks property now held by each top-level hook object
  copySubHooks,   \* subHooks property of the copy made of a top-level hook
  bundles,        \* fetchFile of each unique file name: url, state, text
  maps,           \* fetchFile of each source map: url, state, text
  sourceFileURLs, \* source-map URL -> bundle URL
  consumers,      \* SourceMapConsumer.with of each source map, top level
  data,           \* the nodes the iterations of each of those callbacks
                  \* returned: the callback's array, or what came before a throw
  subTasks,       \* sub-hook resolution started for each top-level hook
  chain,          \* where the promise chain of the call stands
  result,         \* what the returned promise resolved with
  parses,         \* per original source: times it was parsed
  collects,       \* per original source: times its pool was collected
  mergeState,     \* a call of mergeVariableNamesIntoHookLog: idle, returned, threw
  mergeBefore,    \* its two arguments as they were passed, and the
                  \* hook objects that are in both
  mergeOld,       \* oldHookLog as it is now
  mergeNew,       \* newHookLog as it is now
  classified,     \* the classifiers applied to the first declarator of a
                  \* file and the pool collected from the file
  pooling,        \* the hooks of one component against the pool of its
                  \* file: the file, the hooks, the cached pools and
                  \* what each iteration searched, found and left
  naming          \* the naming of one hook from the declarators of a file:
                  \* state, sourceAST, the associated nodes, the name,
                  \* what the callback returned for the hook

mergeVars == <<mergeState, mergeBefore, mergeOld, mergeNew>>

\* the variables of the specifications of one file
fileVars == <<classified, pooling, naming>>

vars == <<hookLog, subHooksOf, copySubHooks, bundles, maps, sourceFileURLs,
          consumers, data, subTasks, chain, result, parses, collects,
          mergeState, mergeBefore, mergeOld, mergeNew, classified, pooling,
          naming>>

NoTask == [state |-> "none"]
Unsettled == [settled |-> FALSE]

\* the call starts on hookLog_; nothing is merged
Started(hookLog_) ==
  /\ hookLog = hookLog_
  /\ subHooksOf = [i \in 1..Len(hookLog) |-> hookLog[i].subHooks]
  /\ copySubHooks = [i \in 1..Len(hookLog) |-> <<>>]
  /\ bundles = [k \in 1..Len(getUniqueFileNames(hookLog)) |->
                  [url |-> getUniqueFileNames(hookLog)[k], state |-> "fetching"]]
  /\ maps = <<>>
  /\ sourceFileURLs = <<>>
  /\ consumers = <<>>
  /\ data = <<>>
  /\ subTasks = [i \in 1..Len(hookLog) |-> NoTask]
  /\ chain = "bundles"
  /\ result = Unsettled
  /\ parses = [s \in Sources |-> 0]
  /\ collects = [s \in Sources |-> 0]

\* no call of mergeVariableNamesIntoHookLog
NoMerge ==
  /\ mergeState = "idle"
  /\ mergeBefore = [oldHookLog |-> <<>>, newHookLog |-> <<>>, shared |-> {}]
  /\ mergeOld = <<>>
  /\ mergeNew = <<>>

\* no file waits for the naming of its hook
NoNaming ==
  naming = [state |-> "idle", sourceAST |-> <<>>, nodes |-> <<>>,
            name |-> Ret(Undefined), returned |-> <<>>]

\* no declarator waits for the classifiers
NoClassified == classified = [state |-> "idle", sourceAST |-> <<>>]

\* no component waits for its hooks to be resolved
NoPooling ==
  pooling = [state |-> "idle", sourceAST |-> <<>>, hooks |-> <<>>,
             pools |-> [s \in Sources |-> <<>>], steps |-> <<>>]

\* nothing but the call of injectHookVariableNamesFunction
NoOther == NoMerge /\ NoNaming /\ NoClassified /\ NoPooling

Init == \E t \in HookLogs : Started(t) /\ NoOther

\* The top-level hook objects as they are now.
CurrentLog == [i \in 1..Len(hookLog) |-> [hookLog[i] EXCEPT !.subHooks = subHooksOf[i]]]

\* A fetchFile promise: the url, what fetch(url) did (outcome), where the
\* promise stands (state) and, once resolved, the text it resolved with.
\* "hung" is a promise that fetch has answered and that will never settle.
Settle(fetch, outcome, text) ==
  IF fetchFile(outcome) = "resolved"
  THEN [url |-> fetch.url, outcome |-> outcome, state |-> "resolved",
        text |-> text]
  ELSE IF fetchFile(outcome) = "rejected"
  THEN [url |-> fetch.url, outcome |-> outcome, state |-> "rejected"]
  ELSE [url |-> fetch.url, outcome |-> outcome, state |-> "hung"]

AllResolved(fetches) == \A k \in 1..Len(fetches) : fetches[k].state = "resolved"
SomeRejected(fetches) == \E k \in 1..Len(fetches) : fetches[k].state = "rejected"

\* fetch(fileName) of one bundle answers, whenever it answers: also after
\* the rejection of another fetch has ended the chain
FetchBundle(k, outcome, text) ==
  /\ bundles[k].state = "fetching"
  /\ bundles' = [bundles EXCEPT ![k] = Settle(@, outcome, text)]
  /\ UNCHANGED <<mergeVars, fileVars>>
  /\ UNCHANGED <<hookLog, subHooksOf, copySubHooks, maps, sourceFileURLs,
                 consumers, data, subTasks, chain, result, parses, collects>>

\* Promise.all over the bundle fetches rejects with the first rejection
BundleFetchRejected ==
  /\ chain = "bundles"
  /\ SomeRejected(bundles)
  /\ chain' = "rejected"
  /\ UNCHANGED <<mergeVars, fileVars>>
  /\ UNCHANGED <<hookLog, subHooksOf, copySubHooks, bundles, maps,
                 sourceFileURLs, consumers, data, subTasks, result, parses,
                 collects>>

SourceMapURLs(files) ==
  [k \in 1..Len(files) |-> getSourceMapURL(files[k].url, files[k].text)]

\* sourceFileURLs.set(sourceMapURL, url) for every file, in order
SourceFileURLs(files, urls) ==
  [u \in {urls[k].value : k \in 1..Len(urls)} |->
     files[CHOOSE k \in 1..Len(urls) :
             /\ urls[k].value = u
             /\ \A j \in k + 1..Len(urls) : urls[j].value # u].url]

MapsToFetch(urls) ==
  IF \E k \in 1..Len(urls) : urls[k].threw
  THEN /\ chain' = "rejected"
       /\ UNCHANGED <<maps, sourceFileURLs>>
  ELSE /\ chain' = "maps"
       /\ maps' = [k \in 1..Len(urls) |->
                     [url |-> urls[k].value, state |-> "fetching"]]
       /\ sourceFileURLs' = SourceFileURLs(bundles, urls)

\* .then((downloadedFiles) => ...): the source-map URL of every bundle, then
\* the fetch of every source map
BundlesFetched ==
  /\ chain = "bundles"
  /\ AllResolved(bundles)
  /\ MapsToFetch(SourceMapURLs(bundles))
  /\ UNCHANGED <<mergeVars, fileVars>>
  /\ UNCHANGED <<hookLog, subHooksOf, copySubHooks, bundles, consumers, data,
                 subTasks, result, parses, collects>>

\* fetch(sourceMapURL) of one source map answers, whenever it answers
FetchMap(k, outcome, text) ==
  /\ maps[k].state = "fetching"
  /\ maps' = [maps EXCEPT ![k] = Settle(@, outcome, text)]
  /\ UNCHANGED <<mergeVars, fileVars>>
  /\ UNCHANGED <<hookLog, subHooksOf, copySubHooks, bundles, sourceFileURLs,
                 consumers, data, subTasks, chain, result, parses, collects>>

\* Promise.all over the source-map fetches rejects with the first rejection
MapFetchRejected ==
  /\ chain = "maps"
  /\ SomeRejected(maps)
  /\ chain' = "rejected"
  /\ UNCHANGED <<mergeVars, fileVars>>
  /\ UNCHANGED <<hookLog, subHooksOf, copySubHooks, bundles, maps,
                 sourceFileURLs, consumers, data, subTasks, result, parses,
                 collects>>

\* .then((sourceMaps) => modifyHooksToAddVariableNames(...)): sourceMaps.map
\* parses each map as JSON and hands it to SourceMapConsumer.with; the first
\* text that is not JSON throws out of the handler, after the consumers of
\* the maps before it were started.
MapsFetched ==
  /\ chain = "maps"
  /\ AllResolved(maps)
  /\ LET bad == {k \in 1..Len(maps) : JSONParseThrows(maps[k])}
         started(k) == \A j \in bad : k < j
     IN /\ consumers' = [k \in 1..Len(maps) |->
                           IF started(k) THEN "pending" ELSE "none"]
        /\ chain' = IF bad = {} THEN "modify" ELSE "rejected"
  /\ data' = [k \in 1..Len(maps) |-> <<>>]
  /\ UNCHANGED <<mergeVars, fileVars>>
  /\ UNCHANGED <<hookLog, subHooksOf, copySubHooks, bundles, maps,
                 sourceFileURLs, subTasks, result, parses, collects>>

\* injectSubHooksWithVariableNames(hook, ...) was called: the nested
\* modifyHooksToAddVariableNames has handed one callback per source map to
\* SourceMapConsumer.with, each to run in a turn of its own, and its promise
\* is pending; or it has handed the callbacks of the maps before the first
\* one that is not JSON and thrown at that one, so that there is no promise
\* and no .then ("threw"). copy: the hook is the copy made of the top-level
\* hook.
SubTaskStarted(copy, subHooks) ==
  LET bad == {k \in 1..Len(maps) : JSONParseThrows(maps[k])}
      started(k) == \A j \in bad : k < j
  IN [state |-> IF bad = {} THEN "pending" ELSE "threw",
      copy |-> copy, subHooks |-> subHooks,
      consumers |-> [k \in 1..Len(maps) |->
                       IF started(k) THEN "pending" ELSE "none"],
      data |-> [k \in 1..Len(maps) |-> <<>>]]

Injected(ran, i) == \E j \in 1..Len(ran.injects) : ran.injects[j].index = i
InjectedCopy(ran, i) ==
  \E j \in 1..Len(ran.injects) : ran.injects[j].index = i /\ ran.injects[j].copy
Copied(ran, i) ==
  \E j \in 1..Len(ran.nodes) : ran.nodes[j].index = i /\ ran.nodes[j].copy

\* the effects of a callback that ran as `ran`; a copy starts with the
\* subHooks array of its hook, also the copy the catch block drops
RanWithConsumer(k, ran) ==
  /\ consumers' = [consumers EXCEPT ![k] = IF ran.threw THEN "threw" ELSE "done"]
  /\ data' = [data EXCEPT ![k] = ran.nodes]
  /\ subTasks' = [i \in 1..Len(hookLog) |->
                    IF Injected(ran, i)
                    THEN SubTaskStarted(InjectedCopy(ran, i), subHooksOf[i])
                    ELSE subTasks[i]]
  /\ copySubHooks' = [i \in 1..Len(hookLog) |->
                        IF Copied(ran, i) \/ InjectedCopy(ran, i)
                        THEN subHooksOf[i]
                        ELSE copySubHooks[i]]
  /\ parses' = Counted(parses, ran.parsed)
  /\ collects' = Counted(collects, ran.collected)

\* The callback of SourceMapConsumer.with for the k-th source map runs over
\* the top-level hooks of its bundle.
RunWithConsumer(k) ==
  /\ consumers[k] = "pending"
  /\ RanWithConsumer(k, WithConsumer(CurrentLog, maps[k], maps, sourceFileURLs))
  /\ UNCHANGED <<mergeVars, fileVars>>
  /\ UNCHANGED <<hookLog, subHooksOf, bundles, maps, sourceFileURLs, chain, result>>

\* Promise.all over the consumers rejects with the first callback that threw
ModifyRejected ==
  /\ chain = "modify"
  /\ \E k \in 1..Len(consumers) : consumers[k] = "threw"
  /\ chain' = "rejected"
  /\ UNCHANGED <<mergeVars, fileVars>>
  /\ UNCHANGED <<hookLog, subHooksOf, copySubHooks, bundles, maps,
                 sourceFileURLs, consumers, data, subTasks, result, parses,
                 collects>>

\* .then(data => ...): the arrays of the source maps are concatenated and the
\* promise of the call resolves with the new array
ModifyFulfilled ==
  /\ chain = "modify"
  /\ \A k \in 1..Len(consumers) : consumers[k] = "done"
  /\ chain' = "resolved"
  /\ result' = [settled |-> TRUE, original |-> FALSE, nodes |-> Flatten(data)]
  /\ UNCHANGED <<mergeVars, fileVars>>
  /\ UNCHANGED <<hookLog, subHooksOf, copySubHooks, bundles, maps,
                 sourceFileURLs, consumers, data, subTasks, parses, collects>>

\* .catch(e => ... Promise.resolve(hookLog))
CatchRejection ==
  /\ chain = "rejected"
  /\ chain' = "resolved"
  /\ result' = [settled |-> TRUE, original |-> TRUE,
                nodes |-> [i \in 1..Len(hookLog) |->
                             [index |-> i, copy |-> FALSE,
                              hookVariableName |-> hookLog[i].hookVariableName]]]
  /\ UNCHANGED <<mergeVars, fileVars>>
  /\ UNCHANGED <<hookLog, subHooksOf, copySubHooks, bundles, maps,
                 sourceFileURLs, consumers, data, subTasks, parses, collects>>

\* the effects of a nested callback that ran as `ran`
RanSubConsumer(i, k, ran) ==
  /\ subTasks' = [subTasks EXCEPT
                    ![i].consumers[k] = IF ran.threw THEN "threw" ELSE "done",
                    ![i].data[k] = NodeValues(subTasks[i].subHooks, ran.nodes)]
  /\ parses' = Counted(parses, ran.parsed)
  /\ collects' = Counted(collects, ran.collected)

\* The callback of SourceMapConsumer.with for the k-th source map, in the
\* sub-hook resolution of the i-th hook, runs over the sub-hooks of its
\* bundle.
RunSubConsumer(i, k) ==
  /\ subTasks[i].state # "none"
  /\ subTasks[i].consumers[k] = "pending"
  /\ RanSubConsumer(i, k, WithConsumer(subTasks[i].subHooks, maps[k], maps,
                                       sourceFileURLs))
  /\ UNCHANGED <<mergeVars, fileVars>>
  /\ UNCHANGED <<hookLog, subHooksOf, copySubHooks, bundles, maps,
                 sourceFileURLs, consumers, data, chain, result>>

\* .then((subHooksLog) => ... hook.subHooks = modifiedSubHooks), on the copy
\* or on the hook object itself
ReplaceSubHooks(i, modifiedSubHooks) ==
  /\ subTasks' = [subTasks EXCEPT ![i].state = "fulfilled"]
  /\ IF subTasks[i].copy
     THEN /\ copySubHooks' = [copySubHooks EXCEPT ![i] = modifiedSubHooks]
          /\ UNCHANGED subHooksOf
     ELSE /\ subHooksOf' = [subHooksOf EXCEPT ![i] = modifiedSubHooks]
          /\ UNCHANGED copySubHooks

\* The promise injectSubHooksWithVariableNames waits for fulfils once every
\* nested callback has returned, and its .then replaces hook.subHooks.
SubHooksFulfilled(i) ==
  /\ subTasks[i].state = "pending"
  /\ \A k \in 1..Len(maps) : subTasks[i].consumers[k] = "done"
  /\ ReplaceSubHooks(i, Flatten(subTasks[i].data))
  /\ UNCHANGED <<mergeVars, fileVars>>
  /\ UNCHANGED <<hookLog, bundles, maps, sourceFileURLs, consumers, data,
                 chain, result, parses, collects>>

\* That promise rejects with the first nested callback that threw: nothing
\* handles the rejection, hook.subHooks stays.
SubHooksRejected(i) ==
  /\ subTasks[i].state = "pending"
  /\ \E k \in 1..Len(maps) : subTasks[i].consumers[k] = "threw"
  /\ subTasks' = [subTasks EXCEPT ![i].state = "rejected"]
  /\ UNCHANGED <<mergeVars, fileVars>>
  /\ UNCHANGED <<hookLog, subHooksOf, copySubHooks, bundles, maps,
                 sourceFileURLs, consumers, data, chain, result, parses,
                 collects>>

Next ==
  \/ \E k \in 1..Len(bundles), outcome \in FetchOutcomes :
       \E text \in BundleTexts(bundles[k].url) : FetchBundle(k, outcome, text)
  \/ BundleFetchRejected
  \/ BundlesFetched
  \/ \E k \in 1..Len(maps), outcome \in FetchOutcomes :
       \E text \in MapTexts(sourceFileURLs[maps[k].url]) : FetchMap(k, outcome, text)
  \/ MapFetchRejected
  \/ MapsFetched
  \/ \E k \in 1..Len(consumers) : RunWithConsumer(k)
  \/ ModifyRejected
  \/ ModifyFulfilled
  \/ CatchRejection
  \/ \E i \in 1..Len(hookLog), k \in 1..Len(maps) : RunSubConsumer(i, k)
  \/ \E i \in 1..Len(hookLog) : SubHooksFulfilled(i)
  \/ \E i \in 1..Len(hookLog) : SubHooksRejected(i)

Spec == Init /\ [][Next]_vars

(***************************************************************************)
(* A call of mergeVariableNamesIntoHookLog on its own, over every pair of  *)
(* trees of MergeTrees: on two trees that share no hook object             *)
(* (MergeSpec), and on two trees that share hook objects, as the log and   *)
(* the array a resolution of it returned do (SharedMergeSpec)              *)
(***************************************************************************)
MergeStarted(oldHookLog, newHookLog, shared) ==
  /\ mergeState = "idle"
  /\ mergeBefore = [oldHookLog |-> oldHookLog, newHookLog |-> newHookLog,
                    shared |-> shared]
  /\ mergeOld = oldHookLog
  /\ mergeNew = newHookLog
  /\ Started(<<>>)
  /\ NoNaming
  /\ NoClassified
  /\ NoPooling

\* the two trees share no object
MergeInit ==
  \E oldHookLog \in MergeTrees, newHookLog \in MergeTrees :
     MergeStarted(oldHookLog, newHookLog, {})

\* the call left the trees as `merged`
MergeDone(merged) ==
  /\ mergeState' = IF merged.threw THEN "threw" ELSE "returned"
  /\ mergeOld' = merged.oldHookLog
  /\ mergeNew' = merged.newHookLog

MergeNames ==
  /\ mergeState = "idle"
  /\ MergeDone(MergeObjects(Allocated(mergeBefore.oldHookLog,
                                      mergeBefore.newHookLog,
                                      mergeBefore.shared)))
  /\ UNCHANGED <<mergeBefore, hookLog, subHooksOf, copySubHooks, bundles,
                 maps, sourceFileURLs, consumers, data, subTasks, chain,
                 result, parses, collects, fileVars>>

MergeNext == MergeNames

MergeSpec == MergeInit /\ [][MergeNext]_vars

\* the two trees share hook objects
SharedMergeInit ==
  \E oldHookLog \in MergeTrees, newHookLog \in MergeTrees :
     \E shared \in Sharings(oldHookLog, newHookLog) :
        MergeStarted(oldHookLog, newHookLog, shared)

SharedMergeSpec == SharedMergeInit /\ [][MergeNext]_vars

(***************************************************************************)
(* The naming of one hook: the pool is collected from the file, the        *)
(* declarator of the hook's line is found in it, the nodes associated with *)
(* it are filtered and the name is taken from them.                        *)
(***************************************************************************)
NamingInit ==
  /\ \E sourceAST \in NamingFiles :
       naming = [state |-> "idle", sourceAST |-> sourceAST, nodes |-> <<>>,
                 name |-> Ret(Undefined), returned |-> <<>>]
  /\ Started(<<>>)
  /\ NoMerge
  /\ NoClassified
  /\ NoPooling

\* the try block of the callback: returned is what the callback gives for
\* the hook, the hook with its name or, from the catch, the hook as it was
NamingDone(hook, nodes, name) ==
  naming' = [naming EXCEPT
               !.state = "done", !.nodes = nodes, !.name = name,
               !.returned = InjectName(hook, 1, FALSE, name, <<>>, <<>>, <<>>)]

NamingOf(potentialReactHookASTNode, potentialHooksFound) ==
  NamingDone(
    NamingHookOf(potentialReactHookASTNode),
    getFilteredHookASTNodes(potentialReactHookASTNode, potentialHooksFound),
    InjectedVariableName(NamingHookOf(potentialReactHookASTNode),
      getFilteredHookASTNodes(potentialReactHookASTNode, potentialHooksFound),
      potentialReactHookASTNode))

NamingFrom(potentialHooksFound) ==
  NamingOf(FindConfirmed(potentialHooksFound, 3)[1], potentialHooksFound)

NameHook ==
  /\ naming.state = "idle"
  /\ NamingFrom(getPotentialHookDeclarationsFromAST(naming.sourceAST))
  /\ UNCHANGED <<mergeVars, classified, pooling, hookLog, subHooksOf, copySubHooks, bundles,
                 maps, sourceFileURLs, consumers, data, subTasks, chain,
                 result, parses, collects>>

NamingNext == NameHook

(***************************************************************************)
(* The classifiers on a declarator: isHook on what its init calls,         *)
(* isConfirmedHookDeclaration and getHookVariableName on the declarator,   *)
(* and the traversal of getPotentialHookDeclarationsFromAST over the file. *)
(***************************************************************************)
ClassifiedInit ==
  /\ \E sourceAST \in ClassifiedFiles :
       classified = [state |-> "idle", sourceAST |-> sourceAST]
  /\ Started(<<>>)
  /\ NoMerge
  /\ NoNaming
  /\ NoPooling

\* what the classifiers give for path, the first declarator of sourceAST
Classified(sourceAST, path) ==
  [ state |-> "done", sourceAST |-> sourceAST,
    potential |-> IF TraversalThrows(sourceAST) THEN Threw
                  ELSE Ret(getPotentialHookDeclarationsFromAST(sourceAST)),
    hook |-> IF path.init.type = "CallExpression"
             THEN Ret(isHook(path.init.callee)) ELSE Threw,
    confirmed |-> IF path.init = NoInit THEN Threw
                  ELSE Ret(isConfirmedHookDeclaration(path)),
    name |-> getHookVariableName(path, FALSE),
    customName |-> getHookVariableName(path, TRUE) ]

Classify ==
  /\ classified.state = "idle"
  /\ classified' = Classified(classified.sourceAST, classified.sourceAST[1])
  /\ UNCHANGED <<mergeVars, naming, pooling, hookLog, subHooksOf, copySubHooks,
                 bundles, maps, sourceFileURLs, consumers, data, subTasks,
                 chain, result, parses, collects>>

ClassifiedNext == Classify

ClassifiedSpec == ClassifiedInit /\ [][ClassifiedNext]_vars

(***************************************************************************)
(* The iterations of relevantHooks.map over the hooks of one component,    *)
(* from the pool on: the cached pool of the file or a newly collected one  *)
(* is searched for the declarator of the hook's line, which the splice of  *)
(* getFilteredHookASTNodes removes from the cached pool.                   *)
(***************************************************************************)
PoolInit ==
  /\ \E component \in PoolComponents :
       pooling = [state |-> "running", sourceAST |-> PoolFile(component),
                  hooks |-> PoolHooks(component),
                  pools |-> [s \in Sources |-> <<>>], steps |-> <<>>]
  /\ Started(<<>>)
  /\ NoMerge
  /\ NoNaming
  /\ NoClassified

\* the array the iteration searches
SearchedPool(potentialHooksFound, sourceFileAST) ==
  IF Len(potentialHooksFound) > 0 THEN potentialHooksFound
  ELSE getPotentialHookDeclarationsFromAST(sourceFileAST)

\* the key of the declarator potentialHooksFound.find gives, 0 for none
FoundKey(found) == IF found = <<>> THEN 0 ELSE found[1].key

\* the iteration has returned or thrown: one is what CollectHooks gives
Pooled(k, searched, found, one) ==
  pooling' = [pooling EXCEPT
    !.state = IF one.threw THEN "thrown" ELSE "running",
    !.pools = one.pools,
    !.steps = Append(@, [ hook |-> k, threw |-> one.threw,
                          searched |-> searched, found |-> FoundKey(found),
                          after |-> one.pools["App.js"],
                          name |-> IF one.threw THEN Undefined
                                   ELSE one.node.hookVariableName ])]

PoolOf(k, line, searched) ==
  Pooled(k, searched, FindConfirmed(searched, line),
         CollectHooks(pooling.hooks[k].hook, k, FALSE,
                      [threw |-> FALSE, line |-> line, source |-> "App.js",
                       sourceFileAST |-> pooling.sourceAST, parsed |-> <<>>],
                      pooling.pools))

ResolveNextHook ==
  /\ pooling.state = "running"
  /\ Len(pooling.steps) < Len(pooling.hooks)
  /\ PoolOf(Len(pooling.steps) + 1, pooling.hooks[Len(pooling.steps) + 1].line,
            SearchedPool(pooling.pools["App.js"], pooling.sourceAST))
  /\ UNCHANGED <<mergeVars, classified, naming, hookLog, subHooksOf,
                 copySubHooks, bundles, maps, sourceFileURLs, consumers, data,
                 subTasks, chain, result, parses, collects>>

PoolNext == ResolveNextHook

PoolSpec == PoolInit /\ [][PoolNext]_vars

\* the call of injectHookVariableNamesFunction on a log of PositionLogs
PositionInit == \E t \in PositionLogs : Started(t) /\ NoOther

PositionSpec == PositionInit /\ [][Next]_vars

\* the call of injectHookVariableNamesFunction on a log of OrderLogs
OrderInit == \E t \in OrderLogs : Started(t) /\ NoOther

OrderSpec == OrderInit /\ [][Next]_vars

NamingSpec == NamingInit /\ [][NamingNext]_vars

(***************************************************************************)
(* Observations: what the call returned, and what holds of a hook          *)
(***************************************************************************)
\* the hook object a node of the result stands for, as that object is now
ResultHook(node) ==
  IF node.copy
  THEN [hookLog[node.index] EXCEPT !.hookVariableName = node.hookVariableName,
                                   !.subHooks = copySubHooks[node.index]]
  ELSE [hookLog[node.index] EXCEPT !.subHooks = subHooksOf[node.index]]

\* the array the promise of the call resolved with
ReturnedTree == [j \in 1..Len(result.nodes) |-> ResultHook(result.nodes[j])]

\* the recursive tuple (id, name, structure of subHooks) of every hook
RECURSIVE Structure(_)
Structure(tree) ==
  [j \in 1..Len(tree) |->
     <<tree[j].id, tree[j].name, Structure(tree[j].subHooks)>>]

\* the hooks of a tree, at every depth
RECURSIVE HooksOf(_)
HooksOf(tree) ==
  UNION {{tree[j]} \cup HooksOf(tree[j].subHooks) : j \in 1..Len(tree)}

\* the result holds a named node for the i-th hook of the log
NamedInResult(i) ==
  \E j \in 1..Len(result.nodes) :
    /\ result.nodes[j].index = i
    /\ result.nodes[j].hookVariableName # Undefined

\* the subHooks property of the object a sub-hook resolution assigns to
HeldSubHooks(i) ==
  IF subTasks[i].copy THEN copySubHooks[i] ELSE subHooksOf[i]

\* the hook has a file name, a line and a column
HasLocation(h) ==
  /\ h.hookSource.fileName # NoFile
  /\ h.hookSource.lineNumber # Null
  /\ h.hookSource.columnNumber # Null

\* getASTFromSourceFile of the hook over the well-formed map of its bundle
ASTOf(h) ==
  getASTFromSourceFile(MapDocument(h.hookSource.fileName, TRUE, TRUE),
                       h.hookSource.lineNumber, h.hookSource.columnNumber, {})

\* the confirmed declarators at the translated line, among all of the file's
ConfirmedIn(got) ==
  IF got.threw THEN <<>>
  ELSE FindConfirmed(getPotentialHookDeclarationsFromAST(got.sourceFileAST),
                     got.line)

Translated(got) == ~got.threw

\* the hook's translated line holds a confirmed hook declarator
Declared(h) ==
  HasLocation(h) /\ Translated(ASTOf(h)) /\ ConfirmedIn(ASTOf(h)) # <<>>

\* the hook's translated line holds no confirmed hook declarator
Undeclared(h) ==
  HasLocation(h) /\ Translated(ASTOf(h)) /\ ConfirmedIn(ASTOf(h)) = <<>>

\* the names isNonDeclarativePrimitiveHook lists
NonDeclarativePrimitives ==
  {"Effect", "ImperativeHandle", "LayoutEffect", "DebugValue"}

\* fetchFile rejected: the response was not 2xx, or its body was unreadable
FetchFailed(f) == f.state # "fetching" /\ f.outcome \in {"notOk", "textFail"}

SomeFetchFailed ==
  \/ \E k \in 1..Len(bundles) : FetchFailed(bundles[k])
  \/ \E k \in 1..Len(maps) : FetchFailed(maps[k])

\* the bundle at url and its source map were both downloaded, the map well
\* formed
FetchedWell(url) ==
  /\ \E k \in 1..Len(bundles) :
       bundles[k].url = url /\ bundles[k].state = "resolved"
  /\ \E j \in 1..Len(maps) :
       /\ sourceFileURLs[maps[j].url] = url
       /\ maps[j].state = "resolved"
       /\ maps[j].text = MapDocument(url, TRUE, TRUE)

\* the sourceMappingURL comments of a bundle's text
CommentCount(text) == Len(SelectSeq(text, IsSourceMappingURL))

\* every bundle was downloaded and one of them has no comment, or several
BadComments ==
  /\ AllResolved(bundles)
  /\ \E k \in 1..Len(bundles) : CommentCount(bundles[k].text) # 1

\* every source map was downloaded and one of them is not JSON
NotJSON ==
  /\ AllResolved(maps)
  /\ \E k \in 1..Len(maps) : JSONParseThrows(maps[k])

\* the original source the position translates to, in map, has a syntax error
SyntaxErrorAt(map, pos) ==
  /\ pos.source \in DOMAIN map.sourcesContent
  /\ ~map.sourcesContent[pos.source].syntaxOk

\* the hook maps, by the downloaded map of its bundle, to a source that does
\* not parse
SyntaxErrorFor(h) ==
  /\ HasLocation(h)
  /\ \E k \in 1..Len(maps) :
       /\ maps[k].state = "resolved"
       /\ sourceFileURLs[maps[k].url] = h.hookSource.fileName
       /\ maps[k].text.json
       /\ SyntaxErrorAt(maps[k].text,
            originalPositionFor(maps[k].text, h.hookSource.lineNumber,
                                h.hookSource.columnNumber))

\* a primitive hook that is not non-declarative and whose value is assigned
\* to no variable
UnassignedPrimitive(h) ==
  /\ h.id # Null
  /\ h.name \notin NonDeclarativePrimitives
  /\ Undeclared(h)

\* a non-declarative primitive hook with no declarator at its line
UnassignedNonDeclarative(h) ==
  /\ h.id # Null
  /\ h.name \in NonDeclarativePrimitives
  /\ Undeclared(h)

\* a hook of a bundle whose line or column is null
NoPosition(h) ==
  /\ h.hookSource.fileName # NoFile
  /\ (h.hookSource.lineNumber = Null \/ h.hookSource.columnNumber = Null)

\* the indices of the top-level hooks the callback of the k-th map runs over
RelevantTo(k) == getRelevantHooksForFile(hookLog, sourceFileURLs[maps[k].url])

\* the callback of the k-th source map ran, over a well-formed map
RanOverGoodMap(k) ==
  /\ consumers[k] \in {"done", "threw"}
  /\ maps[k].text = MapDocument(sourceFileURLs[maps[k].url], TRUE, TRUE)

\* a sub-hook resolution that was started leaves hook.subHooks as it was
SubHooksKept(i) ==
  /\ subTasks[i].state # "fulfilled"
  /\ HeldSubHooks(i) = subTasks[i].subHooks

(***************************************************************************)
(* Claims                                                                  *)
(***************************************************************************)

\* C1: the tree the call resolves with has the structure of the input tree,
\* the same hooks in the same order at every level, compared as the
\* recursive tuple (id, name, structure of subHooks); also for hooks of
\* several bundles in interleaved order and for hooks with a null fileName.
C1_StructurePreserved ==
  result.settled => Structure(ReturnedTree) = Structure(hookLog)

\* C2 (as amended): in the returned tree the empty string is the
\* hookVariableName of custom hooks only (id null); every primitive hook is
\* unnamed or has a non-empty name.
C2_EmptyNameOnlyForCustomHooks ==
  result.settled =>
    \A h \in HooksOf(ReturnedTree) : h.hookVariableName = "" => h.id = Null

\* a custom hook bound to an array pattern came back named ''
C2_Witness ==
  /\ result.settled
  /\ \E j \in 1..Len(result.nodes) :
       /\ result.nodes[j].copy
       /\ result.nodes[j].hookVariableName = ""
       /\ hookLog[result.nodes[j].index].id = Null

\* C2 (as stated): no hook of the returned tree has the empty string as its
\* hookVariableName.
C2_NeverEmpty ==
  result.settled => \A h \in HooksOf(ReturnedTree) : h.hookVariableName # ""

\* C3: when the call resolves with the original hookLog after a failure, that
\* tree is unchanged then and at every later time: no subHooks replaced, no
\* name written.
C3_FailureLeavesTreeUnchanged ==
  (result.settled /\ result.original) => CurrentLog = hookLog

\* C4: fetchFile always settles: no promise of fetchFile is left pending for
\* ever once fetch has answered, network errors included.
C4_FetchFileSettles ==
  /\ \A k \in 1..Len(bundles) : bundles[k].state # "hung"
  /\ \A k \in 1..Len(maps) : maps[k].state # "hung"

\* C5 (as amended): when fetchFile rejects for a bundle or for a source map,
\* the call resolves with the original hookLog, untouched: no hook of any
\* bundle is named.
C5_FetchFailureNamesNothing ==
  (result.settled /\ SomeFetchFailed) =>
    (result.original /\ ReturnedTree = hookLog)

\* a source map failed to download while another bundle, holding a hook with
\* a declarator, was downloaded with its map
C5_Witness ==
  /\ result.settled
  /\ \E k \in 1..Len(maps) : FetchFailed(maps[k])
  /\ \E i \in 1..Len(hookLog) :
       Declared(hookLog[i]) /\ FetchedWell(hookLog[i].hookSource.fileName)

\* C5 (as stated): with a failed fetch, the hooks of every other bundle
\* downloaded with its map are still named in the result.
C5_OtherBundlesNamed ==
  (result.settled /\ SomeFetchFailed) =>
    \A i \in 1..Len(hookLog) :
      (Declared(hookLog[i]) /\ FetchedWell(hookLog[i].hookSource.fileName))
        => NamedInResult(i)

\* C6 (as amended): when a downloaded bundle holds no sourceMappingURL
\* comment, or more than one, no source map is fetched and the call resolves
\* with the original hookLog, untouched: no hook of any bundle is named.
C6_CommentErrorNamesNothing ==
  (result.settled /\ BadComments) =>
    (result.original /\ ReturnedTree = hookLog /\ maps = <<>>)

\* a bundle with two comments beside a bundle with one comment that holds a
\* hook with a declarator
C6_Witness ==
  /\ result.settled
  /\ AllResolved(bundles)
  /\ \E k, j \in 1..Len(bundles) :
       /\ CommentCount(bundles[k].text) = 2
       /\ CommentCount(bundles[j].text) = 1
       /\ \E i \in 1..Len(hookLog) :
            /\ hookLog[i].hookSource.fileName = bundles[j].url
            /\ Declared(hookLog[i])

\* C6 (as stated): with such a bundle, the hooks of the other bundles are
\* still named in the result.
C6_OtherBundlesNamed ==
  (result.settled /\ BadComments) =>
    \A i \in 1..Len(hookLog), j \in 1..Len(bundles) :
      (/\ hookLog[i].hookSource.fileName = bundles[j].url
       /\ CommentCount(bundles[j].text) = 1
       /\ Declared(hookLog[i]))
        => NamedInResult(i)

\* C7 (as amended): a source map that is not JSON, or a syntax error in the
\* original source a top-level hook maps to, makes the call resolve with the
\* original hookLog, so that no top-level hook is named; a syntax error in the
\* source a sub-hook maps to leaves the subHooks of its custom hook as they
\* were.
C7_ParseErrorNamesNothing ==
  /\ (/\ result.settled
      /\ \/ NotJSON
         \/ /\ AllResolved(maps)
            /\ \E i \in 1..Len(hookLog) : SyntaxErrorFor(hookLog[i]))
       => result.original
  /\ \A i \in 1..Len(hookLog) :
       (/\ subTasks[i].state # "none"
        /\ \E j \in 1..Len(subTasks[i].subHooks) :
             SyntaxErrorFor(subTasks[i].subHooks[j]))
         => SubHooksKept(i)

\* the callback of a map whose source has a syntax error threw, the callback
\* of a well-formed map ran to its end over a hook with a declarator
C7_Witness ==
  /\ result.settled
  /\ result.original
  /\ \E k, j \in 1..Len(consumers) :
       /\ consumers[k] = "threw"
       /\ \E i \in 1..Len(hookLog) :
            /\ SyntaxErrorFor(hookLog[i])
            /\ hookLog[i].hookSource.fileName = sourceFileURLs[maps[k].url]
       /\ consumers[j] = "done"
       /\ \E i \in 1..Len(hookLog) :
            /\ Declared(hookLog[i])
            /\ hookLog[i].hookSource.fileName = sourceFileURLs[maps[j].url]
            /\ FetchedWell(hookLog[i].hookSource.fileName)

\* C7 (as stated): with a map that is not JSON or a source that does not
\* parse, the hooks that map to the other files are still named in the
\* result.
C7_OtherFilesNamed ==
  (/\ result.settled
   /\ \/ NotJSON
      \/ /\ AllResolved(maps)
         /\ \E i \in 1..Len(hookLog) : SyntaxErrorFor(hookLog[i]))
    => \A i \in 1..Len(hookLog) :
         (Declared(hookLog[i]) /\ FetchedWell(hookLog[i].hookSource.fileName))
           => NamedInResult(i)

\* C8 (as amended): a top-level primitive hook that is not non-declarative
\* and has no confirmed declarator at its line makes the call resolve with
\* the original hookLog, so that no top-level hook is named; such a hook among
\* the sub-hooks of a custom hook leaves the subHooks of that custom hook as
\* they were.
C8_UnassignedPrimitiveIsFatal ==
  /\ (/\ result.settled
      /\ \E i \in 1..Len(hookLog) : UnassignedPrimitive(hookLog[i]))
       => result.original
  /\ \A i \in 1..Len(hookLog) :
       (/\ subTasks[i].state # "none"
        /\ \E j \in 1..Len(subTasks[i].subHooks) :
             UnassignedPrimitive(subTasks[i].subHooks[j]))
         => SubHooksKept(i)

\* everything was downloaded well, the callback met the unassigned hook and
\* threw, and the log holds a hook with a declarator
C8_Witness ==
  /\ result.settled
  /\ result.original
  /\ \E k \in 1..Len(consumers) :
       /\ consumers[k] = "threw"
       /\ RanOverGoodMap(k)
       /\ Len(data[k]) < Len(RelevantTo(k))
       /\ UnassignedPrimitive(hookLog[RelevantTo(k)[Len(data[k]) + 1]])
  /\ \E i \in 1..Len(hookLog) :
       Declared(hookLog[i]) /\ FetchedWell(hookLog[i].hookSource.fileName)

\* C8 (as stated): such a hook is not fatal: the other hooks of the call are
\* still named in the result.
C8_OthersStillNamed ==
  (/\ result.settled
   /\ \E i \in 1..Len(hookLog) : UnassignedPrimitive(hookLog[i]))
    => \A i \in 1..Len(hookLog) :
         (Declared(hookLog[i]) /\ FetchedWell(hookLog[i].hookSource.fileName))
           => NamedInResult(i)

\* C9 (as amended): a top-level hook of a bundle whose line or column is
\* null makes the call resolve with the original hookLog, so that no
\* top-level hook is named; a hook without a file name is not processed and
\* is not part of a result built from the source maps.
C9_NullPositionIsFatal ==
  /\ (/\ result.settled
      /\ \E i \in 1..Len(hookLog) : NoPosition(hookLog[i]))
       => result.original
  /\ (result.settled /\ ~result.original) =>
       \A j \in 1..Len(result.nodes) :
         hookLog[result.nodes[j].index].hookSource.fileName # NoFile

\* everything was downloaded well, the callback met the hook without a
\* column and threw, and the log holds a hook with a declarator
C9_Witness ==
  /\ result.settled
  /\ result.original
  /\ \E k \in 1..Len(consumers) :
       /\ consumers[k] = "threw"
       /\ RanOverGoodMap(k)
       /\ Len(data[k]) < Len(RelevantTo(k))
       /\ NoPosition(hookLog[RelevantTo(k)[Len(data[k]) + 1]])
  /\ \E i \in 1..Len(hookLog) :
       Declared(hookLog[i]) /\ FetchedWell(hookLog[i].hookSource.fileName)

\* C9 (as stated): a hook whose line or column is null does not prevent the
\* other hooks of the call from being named.
C9_OthersStillNamed ==
  (/\ result.settled
   /\ \E i \in 1..Len(hookLog) : NoPosition(hookLog[i]))
    => \A i \in 1..Len(hookLog) :
         (Declared(hookLog[i]) /\ FetchedWell(hookLog[i].hookSource.fileName))
           => NamedInResult(i)

\* C10: a non-declarative primitive hook (Effect, ImperativeHandle,
\* LayoutEffect, DebugValue) with no confirmed declarator at its line is
\* returned as the original hook object, unnamed, and is never the hook at
\* which the callback of its file throws, so that the hooks after it are
\* processed.
C10_NonDeclarativePassesThrough ==
  \A k \in 1..Len(consumers) :
    RanOverGoodMap(k) =>
      /\ \A p \in 1..Len(data[k]) :
           UnassignedNonDeclarative(hookLog[RelevantTo(k)[p]]) =>
             data[k][p] = [index |-> RelevantTo(k)[p], copy |-> FALSE,
                           hookVariableName |-> Undefined]
      /\ consumers[k] = "threw" =>
           /\ Len(data[k]) < Len(RelevantTo(k))
           /\ ~UnassignedNonDeclarative(
                 hookLog[RelevantTo(k)[Len(data[k]) + 1]])

\* the callback returned an Effect hook as it was and then named the hook
\* after it
C10_Witness ==
  \E k \in 1..Len(consumers) :
    /\ RanOverGoodMap(k)
    /\ consumers[k] = "done"
    /\ \E p \in 1..Len(data[k]) - 1 :
         /\ UnassignedNonDeclarative(hookLog[RelevantTo(k)[p]])
         /\ ~data[k][p].copy
         /\ data[k][p + 1].copy
         /\ data[k][p + 1].hookVariableName \notin {Undefined, ""}

\* C11: when the promise of the call resolves, every sub-hook resolution
\* started for a custom hook has completed: none is still pending, to fill
\* in the sub-hooks' names afterwards.
C11_SubHooksDoneAtResolve ==
  result.settled =>
    \A i \in 1..Len(hookLog) : subTasks[i].state # "pending"

\* C12: the call never mutates its input: every hook object of the input
\* hookLog keeps the subHooks and the hookVariableName it had before the call.
C12_InputNeverMutated == CurrentLog = hookLog

\* C13: within one call the pool of potential hook declarators is collected
\* at most once per original source file.
C13_PoolCollectedOnce == \A s \in Sources : collects[s] <= 1

\* C14: within one call no original source file is parsed more than once.
C14_ParsedOnce == \A s \in Sources : parses[s] <= 1

(***************************************************************************)
(* A second call of injectHookVariableNamesFunction, on a tree t, with the *)
(* collaborators answering as they answered the first call: every url      *)
(* gives the response, the map and the source it gave. The operators       *)
(* compute the tree that call resolves with, as it is once its sub-hook    *)
(* resolutions have ended.                                                 *)
(***************************************************************************)
\* the first call has ended: nothing of it is still to run
Quiescent ==
  /\ result.settled
  /\ \A k \in 1..Len(consumers) : consumers[k] # "pending"
  /\ \A i \in 1..Len(hookLog) :
       /\ subTasks[i].state # "pending"
       /\ subTasks[i].state # "none" =>
            \A k \in 1..Len(maps) : subTasks[i].consumers[k] # "pending"

\* the fetchFile promise of url, settled as in the first call
FetchOf(fetches, url) ==
  fetches[CHOOSE k \in 1..Len(fetches) : fetches[k].url = url]

FetchAgain(fetches, urls) == [k \in 1..Len(urls) |-> FetchOf(fetches, urls[k])]

MapURLValues(urls) == [k \in 1..Len(urls) |-> urls[k].value]

\* hook.subHooks = modifiedSubHooks when the sub-hook resolution fulfils
WithResolvedSubHooks(hook, done) ==
  IF done.threw THEN hook ELSE WithSubHooks(hook, Flatten(done.data))

\* a callback called injectSubHooksWithVariableNames on hook i itself
InjectedIn(ran, i) ==
  \E k \in 1..Len(ran) : \E j \in 1..Len(ran[k].injects) :
     ran[k].injects[j].index = i /\ ~ran[k].injects[j].copy

\* the object a callback returned for a node, its sub-hooks resolved when
\* injectSubHooksWithVariableNames was called on it
NodeAgain(t, node, inject, sourceMaps, sourceFileUrls) ==
  IF inject
  THEN WithResolvedSubHooks(NodeValue(t, node),
         SubHooksData(t[node.index].subHooks, sourceMaps, 1, sourceFileUrls))
  ELSE NodeValue(t, node)

NodesAgain(t, one, sourceMaps, sourceFileUrls) ==
  [j \in 1..Len(one.nodes) |->
     NodeAgain(t, one.nodes[j], Injected(one, one.nodes[j].index),
               sourceMaps, sourceFileUrls)]

\* the hooks of t itself, when the chain rejected after some callbacks ran
KeptAgain(t, ran, sourceMaps, sourceFileUrls) ==
  [i \in 1..Len(t) |->
     IF InjectedIn(ran, i)
     THEN WithResolvedSubHooks(t[i],
            SubHooksData(t[i].subHooks, sourceMaps, 1, sourceFileUrls))
     ELSE t[i]]

AgainFromData(t, sourceMaps, sourceFileUrls, ran) ==
  IF \E k \in 1..Len(ran) : ran[k].threw
  THEN KeptAgain(t, ran, sourceMaps, sourceFileUrls)
  ELSE Flatten([k \in 1..Len(ran) |->
                  NodesAgain(t, ran[k], sourceMaps, sourceFileUrls)])

AgainFromMaps(t, sourceMaps, sourceFileUrls) ==
  IF ~AllResolved(sourceMaps) \/ AnyNotJSON(sourceMaps) THEN t
  ELSE AgainFromData(t, sourceMaps, sourceFileUrls,
         [k \in 1..Len(sourceMaps) |->
            WithConsumer(t, sourceMaps[k], sourceMaps, sourceFileUrls)])

AgainFromURLs(t, files, urls) ==
  IF \E k \in 1..Len(urls) : urls[k].threw THEN t
  ELSE AgainFromMaps(t, FetchAgain(maps, MapURLValues(urls)),
                     SourceFileURLs(files, urls))

AgainFromFiles(t, files) ==
  IF ~AllResolved(files) THEN t
  ELSE AgainFromURLs(t, files, SourceMapURLs(files))

ResolveAgain(t) == AgainFromFiles(t, FetchAgain(bundles, getUniqueFileNames(t)))

\* C15: resolution is idempotent: with collaborators that answer as before,
\* resolving the tree a call resolved with gives that tree again, in
\* structure and in every hookVariableName.
C15_ResolveIdempotent == Quiescent => ResolveAgain(ReturnedTree) = ReturnedTree

\* a tree without its hookVariableName fields
RECURSIVE WithoutNames(_)
WithoutNames(tree) ==
  [j \in 1..Len(tree) |->
     [id |-> tree[j].id, name |-> tree[j].name,
      hookSource |-> tree[j].hookSource,
      subHooks |-> WithoutNames(tree[j].subHooks)]]

\* C16: mergeVariableNamesIntoHookLog changes nothing in oldHookLog except
\* hookVariableName fields (ids, names, hookSource, the number and order of
\* subHooks stay, at every level) and does not modify newHookLog.
C16_MergeWritesOnlyNames ==
  mergeState # "idle" =>
    /\ WithoutNames(mergeOld) = WithoutNames(mergeBefore.oldHookLog)
    /\ mergeNew = mergeBefore.newHookLog

\* what the merge does to one pair: before and after are the old hook, new
\* its counterpart
RECURSIVE FollowsMergeRule(_, _, _)
FollowsMergeRule(before, new, after) ==
  IF before.id # new.id THEN after = before
  ELSE /\ after.hookVariableName = new.hookVariableName
       /\ after.id = before.id
       /\ after.name = before.name
       /\ after.hookSource = before.hookSource
       /\ IF /\ Len(before.subHooks) > 0
             /\ Len(before.subHooks) = Len(new.subHooks)
          THEN /\ Len(after.subHooks) = Len(before.subHooks)
               /\ \A j \in 1..Len(before.subHooks) :
                    FollowsMergeRule(before.subHooks[j], new.subHooks[j],
                                     after.subHooks[j])
          ELSE after.subHooks = before.subHooks

\* the positions both trees have
CommonPositions ==
  {i \in 1..Len(mergeBefore.oldHookLog) : i <= Len(mergeBefore.newHookLog)}

\* C17: at every position both trees have, the old hook takes the new
\* hook's hookVariableName exactly when their ids are equal, its sub-hooks
\* are merged only when moreover both subHooks have the same length, and a
\* pair whose ids differ keeps the old hook and its subtree as they were.
C17_MergeByIdAtPosition ==
  mergeState # "idle" =>
    /\ Len(mergeOld) = Len(mergeBefore.oldHookLog)
    /\ \A i \in CommonPositions :
         FollowsMergeRule(mergeBefore.oldHookLog[i],
                          mergeBefore.newHookLog[i], mergeOld[i])

\* a merge with a pair of equal ids whose name was written and a pair of
\* different ids whose different name was not
C17_Witness ==
  /\ mergeState = "returned"
  /\ \E i, j \in CommonPositions :
       /\ mergeBefore.oldHookLog[i].id = mergeBefore.newHookLog[i].id
       /\ mergeOld[i].hookVariableName
            # mergeBefore.oldHookLog[i].hookVariableName
       /\ mergeBefore.oldHookLog[j].id # mergeBefore.newHookLog[j].id
       /\ mergeBefore.newHookLog[j].hookVariableName
            # mergeBefore.oldHookLog[j].hookVariableName
       /\ mergeOld[j] = mergeBefore.oldHookLog[j]

\* C18: mergeVariableNamesIntoHookLog completes without error for every pair
\* of trees, also when newHookLog has fewer entries than oldHookLog.
C18_MergeCompletes == mergeState # "threw"

\* the result holds a node of the i-th hook of the log with this name
NamedAs(i, name) ==
  \E j \in 1..Len(result.nodes) :
    result.nodes[j].index = i /\ result.nodes[j].hookVariableName = name

\* the merge returned and left every top-level hook of the log with the name
\* the result has for that hook
NamesRestored(merged) ==
  /\ ~merged.threw
  /\ \A i \in 1..Len(hookLog) :
       NamedAs(i, merged.oldHookLog[i].hookVariableName)

\* the nodes the sub-hook resolution of the i-th hook returned, in the
\* order of modifiedSubHooks
SubNodes(i) ==
  Flatten([k \in 1..Len(maps) |->
             WithConsumer(subTasks[i].subHooks, maps[k], maps,
                          sourceFileURLs).nodes])

\* the sub-hooks the copy of the i-th hook shares with the hook: those of
\* the subHooks array it took from the hook, or, once its sub-hook
\* resolution has replaced the array, those the resolution returned as they
\* were
SharedSubHooks(i, j) ==
  IF ~(subTasks[i].state = "fulfilled" /\ subTasks[i].copy)
  THEN {<< <<"new", j, k>>, <<"old", i, k>> >> : k \in 1..Len(subHooksOf[i])}
  ELSE {<< <<"new", j, k>>, <<"old", i, SubNodes(i)[k].index>> >> :
          k \in {k \in 1..Len(SubNodes(i)) : ~SubNodes(i)[k].copy}}

\* the objects the array the call resolved with shares with the log: the
\* hooks returned as they were, and sub-hooks of the copies
SharedByResult ==
  UNION {IF result.nodes[j].copy
         THEN SharedSubHooks(result.nodes[j].index, j)
         ELSE {<< <<"new", j>>, <<"old", result.nodes[j].index>> >>} :
           j \in 1..Len(result.nodes)}

\* C19: when every hook of the tree is resolvable, after
\* mergeVariableNamesIntoHookLog(t, resolve(t)) every hook of t, in t's
\* order, carries the name resolved for that same hook, also when the
\* top-level hooks alternate between bundles.
C19_MergeRestoresOrder ==
  (/\ result.settled
   /\ ~result.original
   /\ \A i \in 1..Len(hookLog) : Declared(hookLog[i]))
    => NamesRestored(MergeObjects(Allocated(CurrentLog, ReturnedTree,
                                            SharedByResult)))

(***************************************************************************)
(* Indirect aliasing: the hook's declarator binds an alias that other      *)
(* declarators read                                                        *)
(***************************************************************************)
\* the declarator of the hook: the one naming.sourceAST starts with
AliasDeclarator == naming.sourceAST[1]

\* the init of a declarator is the alias, or a member of it
ReadsAlias(node) ==
  \/ /\ node.init.type = "Identifier"
     /\ node.init.name = AliasDeclarator.id.name
  \/ /\ node.init.type = "MemberExpression"
     /\ node.init.object.type = "Identifier"
     /\ node.init.object.name = AliasDeclarator.id.name

\* the readers of the alias among the other declarators of the file
Readers == SelectSeq(Tail(naming.sourceAST), ReadsAlias)

\* a state or reducer hook bound to a bare identifier that exactly one other
\* declarator reads
AliasWithOneReader ==
  /\ naming.state = "done"
  /\ AliasDeclarator.id.type = "Identifier"
  /\ \/ AliasDeclarator.init.callee = Identifier(useState)
     \/ AliasDeclarator.init.callee = Identifier(useReducer)
     \/ AliasDeclarator.init.callee = Member(Identifier(React), Identifier(useState))
  /\ Len(Readers) = 1

\* the reader binds an identifier, or an array pattern that starts with one
BindsAName(node) ==
  \/ node.id.type = "Identifier"
  \/ /\ node.id.type = "ArrayPattern"
     /\ node.id.elements # <<>>
     /\ node.id.elements[1] \notin NonIdentifiers \cup {Elision}

\* the reader binds an array pattern whose first element is a node that is
\* not an identifier: [{a}, setCount]
BindsAPattern(node) ==
  /\ node.id.type = "ArrayPattern"
  /\ node.id.elements # <<>>
  /\ node.id.elements[1] \in NonIdentifiers

\* the binding name of a declarator: the first element of its array
\* pattern, or its identifier
BindingName(node) ==
  IF node.id.type = "Identifier" THEN node.id.name
  ELSE IF node.id.type = "ArrayPattern" /\ node.id.elements # <<>>
       THEN node.id.elements[1]
       ELSE Undefined

\* C20: indirect aliasing with one reader: when the confirmed declarator of
\* a state or reducer hook binds a bare identifier and exactly one other
\* declarator of the pool has an init that references it, the associated
\* set is that declarator alone and the hook's name is its binding name,
\* for every such file.
C20_OneReaderNamesHook ==
  AliasWithOneReader =>
    /\ naming.nodes = Readers
    /\ naming.name = Ret(BindingName(Readers[1]))

\* C20 as the code has it: the associated set is the one reader; the name
\* is its binding name when it binds an identifier or an array pattern that
\* starts with one; the name is undefined, without an error, when it binds
\* an array pattern whose first element is another node ([{a}, setCount]);
\* and the naming throws when it binds an object pattern or an array
\* pattern that is empty or starts with a hole.
C20_OneReaderNamesHook_Amended ==
  AliasWithOneReader =>
    /\ naming.nodes = Readers
    /\ naming.name = IF BindsAName(Readers[1])
                     THEN Ret(BindingName(Readers[1]))
                     ELSE IF BindsAPattern(Readers[1])
                     THEN Ret(Undefined) ELSE Threw

\* const countState = React.useState(1); const [count, setCount] =
\* countState; beside a declarator that does not read the alias: the hook
\* is named count
C20_Witness ==
  /\ AliasWithOneReader
  /\ Len(naming.sourceAST) = 3
  /\ AliasDeclarator.init.callee = Member(Identifier(React), Identifier(useState))
  /\ Readers[1].id = ArrayPattern(<<"count", "setCount">>)
  /\ Readers[1].init = Identifier("countState")
  /\ naming.name = Ret("count")

\* a state or reducer hook bound to a bare identifier that n other
\* declarators read
AliasWithReaders(n) ==
  /\ naming.state = "done"
  /\ AliasDeclarator.id.type = "Identifier"
  /\ \/ AliasDeclarator.init.callee = Identifier(useState)
     \/ AliasDeclarator.init.callee = Identifier(useReducer)
     \/ AliasDeclarator.init.callee = Member(Identifier(React), Identifier(useState))
  /\ Len(Readers) = n

\* the init of a declarator accesses index 0: alias[0]
AccessesIndexZero(node) ==
  /\ node.init.type = "MemberExpression"
  /\ node.init.property.type = "NumericLiteral"
  /\ node.init.property.value = 0

IndexZeroReaders == SelectSeq(Readers, AccessesIndexZero)

\* the name the callback's hook carries
ReturnedName == naming.returned.node.hookVariableName

\* C21: indexed member access: when exactly two pool declarators reference
\* the hook's alias, the name is the binding identifier of the one whose
\* init accesses index 0; if the two do not hold exactly one index-0
\* access, the hook is returned unnamed and the callback goes on with the
\* other hooks.
C21_IndexZeroReaderNamesHook ==
  AliasWithReaders(2) =>
    /\ ~naming.returned.threw
    /\ ReturnedName = IF Len(IndexZeroReaders) = 1
                      THEN BindingName(IndexZeroReaders[1]) ELSE Undefined

\* C22: fallback to the alias: when no pool declarator, or more than two,
\* reference the hook's alias, the hook's name is the binding name of the
\* confirmed declarator itself (countState), never the name of one of the
\* referencing declarators.
C22_FallbackToAlias ==
  (AliasWithReaders(Len(Readers)) /\ Len(Readers) \notin {1, 2}) =>
    /\ naming.nodes = Readers
    /\ naming.name = Ret(AliasDeclarator.id.name)
    /\ ReturnedName = AliasDeclarator.id.name
    /\ \A j \in 1..Len(Readers) : ReturnedName # BindingName(Readers[j])

\* const countState = useState(1); read by count = countState[0], setCount
\* = countState[1] and [count, setCount] = countState: named countState
C22_Witness ==
  /\ AliasWithReaders(3)
  /\ \E j \in 1..3 : AccessesIndexZero(Readers[j])
  /\ \E j \in 1..3 : Readers[j].id = ArrayPattern(<<"count", "setCount">>)
  /\ \E j \in 1..3 : Readers[j].id = Identifier("setCount")
  /\ ReturnedName = "countState"

\* a custom hook whose declarator binds an identifier or an array pattern
CustomHookDeclared ==
  /\ naming.state = "done"
  /\ AliasDeclarator.init.callee = Identifier(useCustomHook)
  /\ AliasDeclarator.id.type \in {"Identifier", "ArrayPattern"}

\* C23: custom hooks (id null): when the confirmed declarator binds a single
\* identifier the hook's name is that identifier; when it destructures with
\* an array pattern the hook gets no name at all; in both cases the
\* confirmed declarator is the only member of the associated set.
C23_CustomHookNames ==
  CustomHookDeclared =>
    /\ naming.nodes = <<AliasDeclarator>>
    /\ ReturnedName = IF AliasDeclarator.id.type = "Identifier"
                      THEN AliasDeclarator.id.name ELSE Undefined

\* C23 as the code has it: the array pattern gives the custom hook the
\* empty string as its hookVariableName.
C23_CustomHookNames_Amended ==
  CustomHookDeclared =>
    /\ naming.nodes = <<AliasDeclarator>>
    /\ ReturnedName = IF AliasDeclarator.id.type = "Identifier"
                      THEN AliasDeclarator.id.name ELSE ""

\* const [customFlag, customRef] = useCustomHook(); beside two other
\* declarators: the copy returned for the hook is named ''
C23_Witness ==
  /\ CustomHookDeclared
  /\ AliasDeclarator.id = ArrayPattern(<<"customFlag", "customRef">>)
  /\ Len(naming.sourceAST) = 3
  /\ naming.returned.node.copy
  /\ ReturnedName = ""

\* the declarator of the hook does not itself hold the readable binding: it
\* binds no array pattern, and an identifier only for a state or reducer hook
NoReadableBinding ==
  /\ naming.state = "done"
  /\ AliasDeclarator.id.type # "ArrayPattern"
  /\ \/ AliasDeclarator.id.type # "Identifier"
     \/ AliasDeclarator.init.callee = Identifier(useState)
     \/ AliasDeclarator.init.callee = Identifier(useReducer)
     \/ AliasDeclarator.init.callee = Member(Identifier(React), Identifier(useState))

\* the declarators that reference the binding of the hook's declarator; a
\* pattern is no alias and nothing references it
ReferencingDeclarators ==
  IF AliasDeclarator.id.type = "Identifier" THEN Readers ELSE <<>>

\* C26: alias matching: whenever the confirmed declarator does not itself
\* contain the readable binding, the associated set is exactly the
\* subsequence, in source order, of the pool declarators whose init is the
\* alias or a member of the alias; no declarator whose init is a hook call,
\* and none that does not reference the binding, is ever in the set.
C26_AssociatedSetIsTheReaders ==
  NoReadableBinding =>
    /\ naming.nodes = ReferencingDeclarators
    /\ \A j \in 1..Len(naming.nodes) :
         naming.nodes[j].init.type # "CallExpression"

\* C27: a hook whose confirmed declarator binds neither an array pattern nor
\* an identifier always ends unnamed: it never receives the binding name of
\* another declarator of the file, and the callback goes on with the other
\* hooks.
C27_PatternBoundHookStaysUnnamed ==
  (naming.state = "done" /\ AliasDeclarator.id.type \notin {"ArrayPattern", "Identifier"}) =>
    /\ ~naming.returned.threw
    /\ ReturnedName = Undefined

\* C30: a hook whose line and column are both non-null is always taken
\* through position translation and resolution, also when the column is 0:
\* when every hook of the log has a line and a column that translate to a
\* hook declarator, and everything was downloaded well, every hook is named.
C30_ZeroIsAPosition ==
  (/\ result.settled
   /\ \A j \in 1..Len(hookLog) :
        /\ Declared(hookLog[j])
        /\ hookLog[j].subHooks = <<>>
        /\ FetchedWell(hookLog[j].hookSource.fileName))
    => \A i \in 1..Len(hookLog) : NamedInResult(i)

(***************************************************************************)
(* The classifiers                                                         *)
(***************************************************************************)
\* the declarator the classifiers were applied to
ClassifiedPath == classified.sourceAST[1]

\* the declarators of the file that should be collected: those whose init
\* is a call of a hook, a member expression or an identifier
ShouldBeCollected(path) ==
  \/ path.init.type \in {"MemberExpression", "Identifier"}
  \/ /\ path.init.type = "CallExpression"
     /\ \/ path.init.callee \in {Identifier(useState), Identifier(useRef),
                                  Identifier(<<"u","s","e","1">>)}
        \/ path.init.callee \in
             { MemberOf(Identifier(React), FALSE, Identifier(useState)) }

\* C25: the declaration collector returns, in source order, exactly the
\* declarators whose init is a call of a hook, a member expression or an
\* identifier; every other declarator, also one with no initializer, is
\* discarded without error.
C25_CollectorKeepsPotentialHooks ==
  classified.state = "done" =>
    classified.potential = Ret(SelectSeq(classified.sourceAST, ShouldBeCollected))

\* the first element of an array pattern is an identifier
StartsWithIdentifier(id) ==
  id.elements # <<>> /\ id.elements[1] \notin NonIdentifiers \cup {Elision}

\* the first element of an array pattern is a node that is not an identifier
StartsWithPattern(id) ==
  id.elements # <<>> /\ id.elements[1] \in NonIdentifiers

\* C28: getHookVariableName returns, for a declarator whose id is an array
\* pattern, the name of the first element, and no name when isCustomHook is
\* true; for an identifier it returns id.name regardless of isCustomHook;
\* for any other id it fails with an error.
C28_BindingNameOf ==
  classified.state = "done" =>
    /\ ClassifiedPath.id.type = "ArrayPattern" =>
         /\ ClassifiedPath.id.elements # <<>> =>
              classified.name = Ret(ClassifiedPath.id.elements[1])
         /\ classified.customName = Ret("")
    /\ ClassifiedPath.id.type = "Identifier" =>
         /\ classified.name = Ret(ClassifiedPath.id.name)
         /\ classified.customName = Ret(ClassifiedPath.id.name)
    /\ ClassifiedPath.id.type \notin {"ArrayPattern", "Identifier"} =>
         /\ classified.name = Threw
         /\ classified.customName = Threw

\* C28 as the code has it: for an array pattern the name of the first
\* element when that element is an identifier, undefined when it is
\* another node, and an error when the pattern is empty or starts with a
\* hole; the empty string when isCustomHook is true.
C28_BindingNameOf_Amended ==
  classified.state = "done" =>
    /\ ClassifiedPath.id.type = "ArrayPattern" =>
         /\ classified.name = IF StartsWithIdentifier(ClassifiedPath.id)
                              THEN Ret(ClassifiedPath.id.elements[1])
                              ELSE IF StartsWithPattern(ClassifiedPath.id)
                              THEN Ret(Undefined) ELSE Threw
         /\ classified.customName = Ret("")
    /\ ClassifiedPath.id.type = "Identifier" =>
         /\ classified.name = Ret(ClassifiedPath.id.name)
         /\ classified.customName = Ret(ClassifiedPath.id.name)
    /\ ClassifiedPath.id.type \notin {"ArrayPattern", "Identifier"} =>
         /\ classified.name = Threw
         /\ classified.customName = Threw

\* const [count, setCount] = useState(...): count, and '' for a custom hook
C28_Witness ==
  /\ classified.state = "done"
  /\ ClassifiedPath.id = ArrayPattern(<<"count", "setCount">>)
  /\ ClassifiedPath.init = Call(Identifier(useState))
  /\ classified.name = Ret("count")
  /\ classified.customName = Ret("")

\* useState and use1 are the names of CalleeNames that match /^use[A-Z0-9].*$/
MatchesHookName(node) ==
  /\ node.type = "Identifier"
  /\ node.name \in {useState, <<"u","s","e","1">>}

\* an identifier with a hook name, or a non-computed member expression of
\* an identifier that begins with an uppercase letter, the property a hook
ShouldBeHook(node) ==
  \/ MatchesHookName(node)
  \/ /\ node.type = "MemberExpression"
     /\ ~node.computed
     /\ node.object.type = "Identifier"
     /\ node.object.name[1] \in Upper
     /\ MatchesHookName(node.property)

\* C29: isHook(node) is true exactly when node is an identifier whose name
\* matches /^use[A-Z0-9].*$/ or a non-computed member expression whose
\* object is an identifier beginning with an uppercase letter and whose
\* property satisfies isHook; isConfirmedHookDeclaration(d) holds exactly
\* when d.init is a call whose callee satisfies isHook.
C29_IsHookExactly ==
  (classified.state = "done" /\ ClassifiedPath.init # NoInit) =>
    IF ClassifiedPath.init.type = "CallExpression"
    THEN /\ classified.hook = Ret(ShouldBeHook(ClassifiedPath.init.callee))
         /\ classified.confirmed = Ret(ShouldBeHook(ClassifiedPath.init.callee))
    ELSE classified.confirmed = Ret(FALSE)

\* React.useState(...) is a hook call, its declarator a confirmed one
C29_Witness ==
  /\ classified.state = "done"
  /\ ClassifiedPath.init =
       Call(MemberOf(Identifier(React), FALSE, Identifier(useState)))
  /\ classified.hook = Ret(TRUE)
  /\ classified.confirmed = Ret(TRUE)

(***************************************************************************)
(* The pool                                                                *)
(***************************************************************************)
\* pool without the declarator of that key, the others in their order
WithoutKey(pool, key) == SelectSeq(pool, LAMBDA node : node.key # key)

\* C24: resolving a hook removes exactly its confirmed declarator from the
\* pool of the file, the other entries staying in source order, and no
\* declarator is the confirmed declaration of two hooks of the call: the
\* hooks are matched to distinct declarators in source order, also when
\* they are reported on the same line.
C24_ConsumeOnce ==
  \A i \in DOMAIN pooling.steps :
    /\ pooling.steps[i].found # 0 =>
         pooling.steps[i].after =
           WithoutKey(pooling.steps[i].searched, pooling.steps[i].found)
    /\ \A j \in DOMAIN pooling.steps :
         (i < j /\ pooling.steps[i].found # 0 /\ pooling.steps[j].found # 0)
           => pooling.steps[i].found < pooling.steps[j].found

====
